---- MODULE Spec2Model ----
(***************************************************************************)
(* A model of ccBase, first of all of cAsync::AsyncCallback                *)
(* (ccBase/design_patterns/include/async_callback.h): a queue of callbacks *)
(* drained by one worker thread, a registry of shared futures for          *)
(* WaitAll(), and the Start/Stop/Post lifecycle.                           *)
(*                                                                         *)
(* Client threads call Start, Stop, Post, Post<T>, WaitAll and get() on    *)
(* the future Post returned.  A critical section under mutex_ together     *)
(* with the notification that follows it is one step; StartUnlocked is     *)
(* split where the new thread exists but is not yet assigned, and Stop()   *)
(* where it touches worker_thread_ outside the mutex.                      *)
(*                                                                         *)
(* Spec has two client threads; FairSpec adds the scheduling assumptions;  *)
(* ProducerSpec has one client thread, callbacks that call Post on their   *)
(* own executor, and GetPendingCount().                                    *)
(*                                                                         *)
(* The module also models cLogger::Logger (LoggerSpec, LoggerFairSpec for  *)
(* the queue and the worker thread, FileSpec for the log file and its      *)
(* rotation), cObjectPool::ObjectPool (PoolSpec), cCommand::CommandManager *)
(* (CommandSpec) and cStateMachine::StateMachine (MachineSpec); the steps  *)
(* of one component leave the variables of the others unchanged.           *)
(***************************************************************************)
EXTENDS Naturals, Sequences, FiniteSets

\* Bounds of the model.
MaxTasks == 3
MaxWorkers == 2
MaxCalls == 4

Clients == {"A", "B"}
Tasks == 1..MaxTasks
WorkerIds == 1..MaxWorkers

\* Bounds of the logger model: calls made to the logger.
MaxLogCalls == 4
LogThreads == {"M", "P"}
Entries == 1..MaxLogCalls

\* Bounds of the object pool model: objects the factory makes, and the largest
\* max_size a pool is constructed with.
MaxObjects == 4
MaxPoolSize == 2
Objects == 1..MaxObjects

\* Bound of the command manager model: commands handed to Execute.
MaxCommands == 3
Commands == 1..MaxCommands

\* Bounds of the log file model: entries written, the largest size of an
\* entry, the largest max_file_size configured, and max_backup_files.
MaxWrites == 4
MaxEntrySize == 2
MaxFileSize == 3
MaxBackupFiles == 2
Backups == 1..MaxBackupFiles

\* The state names of the state machine model.
StateNames == {"Idle", "Running"}

VARIABLES
    running_,          \* bool running_
    callbacks_,        \* std::queue<std::function<void()>> callbacks_ (task ids)
    pending_futures_,  \* std::vector<std::shared_future<void>> pending_futures_
    worker_thread_,    \* std::thread worker_thread_: 0 (not joinable) or a worker id
    mutex_,            \* holder of mutex_
    cv_waiters,        \* workers blocked inside cv_.wait
    wpc,               \* position of every worker thread in WorkerLoop
    cur,               \* the callback a worker popped (local `callback`)
    nWorkers,          \* threads constructed so far
    nTasks,            \* callbacks pushed so far; a task's id is its push rank
    kind,              \* per task: "untyped" (Post) or "typed" (Post<T>)
    body,              \* per task: the user callback returns ("ok"), throws ("throw"),
                       \* or calls Post on its own executor and returns ("post")
    pstate,            \* per task: shared state of the std::promise<void>
    tstate,            \* per task: shared state of the std::promise<T> (typed only)
    tvalue,            \* per task: the value held by the std::promise<T> (0: none)
    execOrder,         \* history: tasks in the order their bodies were invoked
    terminated,        \* std::terminate / crash: the process is gone
    pc,                \* position of every client thread
    calls,             \* calls made so far by all clients
    count,             \* the size GetPendingCount() returned to the client
    newWorker,         \* StartUnlocked: the temporary std::thread just constructed
    myTask,            \* Post: the task the client posted
    handle,            \* the std::future Post returned to the client
    getResult,         \* outcome of future.get() on the client's handle
    getValue,          \* the value future<T>::get() returned (0: none)
    rearm,             \* history: the Post in progress began after the caller's Stop() returned
    futures,           \* WaitAll: local vector `futures` still to be waited on
    waSeen,            \* history: callbacks pushed when WaitAll took its snapshot
    taken,             \* history: tasks some WaitAll snapshot has taken
    takenBy,           \* history: per task, the client whose WaitAll snapshot took it
    stopSnap           \* history: callbacks_ when Stop() took the lock

execVars == <<running_, callbacks_, pending_futures_, worker_thread_, mutex_, cv_waiters>>
workerVars == <<wpc, cur, nWorkers>>
taskVars == <<nTasks, kind, body, pstate, tstate, tvalue, execOrder>>
postLocals == <<myTask, handle, getResult, getValue, rearm>>
waLocals == <<futures, waSeen, taken, takenBy>>
clientVars == <<pc, calls, count, newWorker, postLocals, waLocals, stopSnap>>
asyncVars == <<execVars, workerVars, taskVars, clientVars, terminated>>

\* cLogger::Logger (ccBase/logger/include/logger.h)
VARIABLES
    async_mode,        \* config_.async_mode
    logger_mutex_,     \* holder of Logger::mutex_
    queue_mutex_,      \* holder of queue_mutex_
    log_queue_,        \* std::queue<std::string> log_queue_ (entry ids)
    async_running_,    \* std::atomic<bool> async_running_
    async_thread_,     \* std::thread async_thread_ is joinable
    queue_waiters,     \* threads blocked inside queue_cv_.wait
    lwpc,              \* position of the async worker in AsyncWorkerLoop
    log_entry,         \* AsyncWorkerLoop: the entry popped (local `log_entry`)
    written,           \* entries WriteLog has put out, in order
    lpc,               \* position of every thread that calls the logger
    nEntries,          \* entries formatted by Log so far; an entry's id is its rank
    logCalls,          \* calls made so far to the logger
    logAborted,        \* std::terminate: the process is gone
    atCall             \* history: per thread, for the Flush() or Shutdown() it made
                       \* last: the entries enqueued when the call began, and
                       \* whether the call took the async branch

\* cObjectPool::ObjectPool<T> (ccBase/design_patterns/include/object_pool.h)
VARIABLES
    pool_made,         \* the pool has been constructed
    max_size_,         \* size_t max_size_ (0: no limit)
    pool_,             \* std::queue<std::unique_ptr<T>> pool_ (object ids)
    current_size_,     \* size_t current_size_
    handed,            \* objects held by callers through an ObjectPtr
    nObjects,          \* objects the factory has made so far
    acquired           \* what the last Acquire() returned (0: nullptr)

\* cCommand::CommandManager (ccBase/design_patterns/include/command.h)
VARIABLES
    undo_stack_,       \* std::stack undo_stack_ (command ids, top last)
    redo_stack_,       \* std::stack redo_stack_ (command ids, top last)
    undo_func_,        \* per command: FunctionalCommand::undo_func_ != nullptr
    applied,           \* per command: its effect is in place (executed and not undone)
    nCommands,         \* commands made so far
    lastCall           \* the last call on the manager: what it was, what it returned,
                       \* what the manager said beforehand, and the command it ran

\* cLogger::Logger, file output: WriteLog and CheckAndRotateLog
VARIABLES
    enable_file,       \* config_.enable_file
    max_file_size,     \* config_.max_file_size
    log_file_,         \* std::ofstream log_file_ is open
    active,            \* content of the file config_.log_file_path (sizes of its entries)
    backup,            \* content of the files log_file_path.1, .2, ... (<<>>: no file)
    nWrites,           \* WriteLog calls so far
    lastWrite          \* history: whether the last WriteLog rotated, and the content
                       \* of the active file when CheckAndRotateLog looked at it

\* cStateMachine::StateMachine (ccBase/design_patterns/include/state_machine.h)
VARIABLES
    states_,           \* std::map states_: per name "absent", "state" or "null"
    transitions_,      \* std::map transitions_: per <<from, to>> "absent", "always"
                       \* (no condition) or "cond" (a condition function)
    current_state_,    \* std::string current_state_ ("": empty)
    initial_state_,    \* std::string initial_state_ ("": empty)
    smCrashed,         \* a call through a null State pointer ended the process
    smLast             \* history: the last call, its argument, what it returned and
                       \* current_state_ before it

fileVars == <<enable_file, max_file_size, log_file_, active, backup, nWrites, lastWrite>>
machineVars == <<states_, transitions_, current_state_, initial_state_, smCrashed, smLast>>

loggerVars == <<async_mode, logger_mutex_, queue_mutex_, log_queue_, async_running_,
                async_thread_, queue_waiters, lwpc, log_entry, written, lpc, nEntries,
                logCalls, logAborted, atCall>>
poolVars == <<pool_made, max_size_, pool_, current_size_, handed, nObjects, acquired>>
commandVars == <<undo_stack_, redo_stack_, undo_func_, applied, nCommands, lastCall>>

vars == <<asyncVars, loggerVars, poolVars, commandVars, fileVars, machineVars>>

\* What the steps of one component leave alone.
nonAsyncVars == <<loggerVars, poolVars, commandVars, fileVars, machineVars>>
nonLoggerVars == <<asyncVars, poolVars, commandVars, fileVars, machineVars>>
nonPoolVars == <<asyncVars, loggerVars, commandVars, fileVars, machineVars>>
nonCommandVars == <<asyncVars, loggerVars, poolVars, fileVars, machineVars>>
nonFileVars == <<asyncVars, loggerVars, poolVars, commandVars, machineVars>>
nonMachineVars == <<asyncVars, loggerVars, poolVars, commandVars, fileVars>>

Free == [c |-> "none", w |-> 0]
ByClient(c) == [c |-> c, w |-> 0]
ByWorker(w) == [c |-> "none", w |-> w]

\* A std::future: the task whose shared state it was obtained from, and whether
\* it still refers to that state (valid()).
NoHandle == [task |-> 0, valid |-> FALSE]

NotAtCall == [n |-> 0, async |-> FALSE]

\* Logger: default members; LoggerConfig::async_mode = false.
LoggerInit ==
    /\ async_mode = FALSE
    /\ logger_mutex_ = "none"
    /\ queue_mutex_ = "none"
    /\ log_queue_ = <<>>
    /\ async_running_ = FALSE
    /\ async_thread_ = FALSE
    /\ queue_waiters = {}
    /\ lwpc = "none"
    /\ log_entry = 0
    /\ written = <<>>
    /\ lpc = [t \in LogThreads |-> "idle"]
    /\ nEntries = 0
    /\ logCalls = 0
    /\ logAborted = FALSE
    /\ atCall = [t \in LogThreads |-> NotAtCall]

\* No pool yet: the constructor is a step of its own.
PoolInit ==
    /\ pool_made = FALSE
    /\ max_size_ = 0
    /\ pool_ = <<>>
    /\ current_size_ = 0
    /\ handed = {}
    /\ nObjects = 0
    /\ acquired = 0

NoCall == [op |-> "none", ret |-> FALSE, can |-> FALSE, cmd |-> 0, ran |-> "none"]

\* CommandManager: both stacks empty.
CommandInit ==
    /\ undo_stack_ = <<>>
    /\ redo_stack_ = <<>>
    /\ undo_func_ = [k \in Commands |-> FALSE]
    /\ applied = [k \in Commands |-> FALSE]
    /\ nCommands = 0
    /\ lastCall = NoCall

NoWrite == [rotated |-> FALSE, seen |-> <<>>]

\* LoggerConfig defaults: enable_file = false; no file is open.  The size
\* limit is set by the first Initialize.
FileInit ==
    /\ enable_file = FALSE
    /\ max_file_size = MaxFileSize
    /\ log_file_ = FALSE
    /\ active = <<>>
    /\ backup = [i \in Backups |-> <<>>]
    /\ nWrites = 0
    /\ lastWrite = NoWrite

NoTransition == [op |-> "none", arg |-> "", ret |-> "none", before |-> "", known |-> FALSE]

\* StateMachine: empty maps, empty strings.
MachineInit ==
    /\ states_ = [n \in StateNames |-> "absent"]
    /\ transitions_ = [e \in StateNames \X StateNames |-> "absent"]
    /\ current_state_ = ""
    /\ initial_state_ = ""
    /\ smCrashed = FALSE
    /\ smLast = NoTransition

Init ==
    /\ FileInit
    /\ MachineInit
    /\ LoggerInit
    /\ PoolInit
    /\ CommandInit
    /\ running_ = FALSE
    /\ callbacks_ = <<>>
    /\ pending_futures_ = <<>>
    /\ worker_thread_ = 0
    /\ mutex_ = Free
    /\ cv_waiters = {}
    /\ wpc = [w \in WorkerIds |-> "none"]
    /\ cur = [w \in WorkerIds |-> 0]
    /\ nWorkers = 0
    /\ nTasks = 0
    /\ kind = [k \in Tasks |-> "none"]
    /\ body = [k \in Tasks |-> "none"]
    /\ pstate = [k \in Tasks |-> "Pending"]
    /\ tstate = [k \in Tasks |-> "Pending"]
    /\ tvalue = [k \in Tasks |-> 0]
    /\ execOrder = <<>>
    /\ terminated = FALSE
    /\ pc = [c \in Clients |-> "idle"]
    /\ calls = 0
    /\ count = [c \in Clients |-> 0]
    /\ newWorker = [c \in Clients |-> 0]
    /\ myTask = [c \in Clients |-> 0]
    /\ handle = [c \in Clients |-> NoHandle]
    /\ getResult = [c \in Clients |-> "none"]
    /\ getValue = [c \in Clients |-> 0]
    /\ rearm = [c \in Clients |-> FALSE]
    /\ futures = [c \in Clients |-> <<>>]
    /\ waSeen = [c \in Clients |-> 0]
    /\ taken = {}
    /\ takenBy = [k \in Tasks |-> "none"]
    /\ stopSnap = [c \in Clients |-> {}]

-----------------------------------------------------------------------------
(* Shared helpers *)

Range(q) == {q[i] : i \in DOMAIN q}

Joinable(t) == t # 0

\* promise->get_future()
GetFuture(k) == [task |-> k, valid |-> TRUE]

\* std::future::share(): the shared state moves into the shared_future that is
\* returned; the future it was called on is left without state.
Share(f) == [shared |-> f.task, moved |-> [task |-> f.task, valid |-> FALSE]]

\* The predicate of cv_.wait in WorkerLoop.
WaitPred == callbacks_ # <<>> \/ ~running_

QueuedTasks == Range(callbacks_)

\* The body of task k has returned or thrown.
Finished(k) == IF kind[k] = "typed" THEN tstate[k] # "Pending" ELSE pstate[k] # "Pending"

\* Bodies that call Post and have not made their call yet: each needs a task id.
Unposted ==
    {k \in 1..nTasks :
        /\ body[k] = "post"
        /\ ~Finished(k)
        /\ \A w \in WorkerIds : ~(wpc[w] = "posted" /\ cur[w] = k)}

\* The bound on tasks leaves room for a task with body bd.
Room(bd) == nTasks + Cardinality(Unposted) + (IF bd = "post" THEN 2 ELSE 1) <= MaxTasks

\* A client that is not inside a call makes the next one.
Call(c) ==
    /\ pc[c] \in {"idle", "start_ret", "stop_ret", "post_ret", "wa_ret", "get_ret", "count_ret"}
    /\ calls < MaxCalls
    /\ ~terminated
    /\ calls' = calls + 1
    /\ count' = [count EXCEPT ![c] = 0]

\* What the caller kept of its previous call goes out of scope.
DropHandle(c) ==
    /\ myTask' = [myTask EXCEPT ![c] = 0]
    /\ handle' = [handle EXCEPT ![c] = NoHandle]
    /\ getResult' = [getResult EXCEPT ![c] = "none"]
    /\ getValue' = [getValue EXCEPT ![c] = 0]

DropPost(c) ==
    /\ DropHandle(c)
    /\ rearm' = [rearm EXCEPT ![c] = FALSE]

DropWait(c) == waSeen' = [waSeen EXCEPT ![c] = 0]

DropStop(c) == stopSnap' = [stopSnap EXCEPT ![c] = {}]

\* cv_.notify_one(): one blocked waiter, if any, leaves cv_.wait.
NotifyOne ==
    IF cv_waiters = {}
    THEN UNCHANGED <<cv_waiters, wpc>>
    ELSE \E w \in cv_waiters :
            /\ cv_waiters' = cv_waiters \ {w}
            /\ wpc' = [wpc EXCEPT ![w] = "top"]

\* cv_.notify_all(): every blocked waiter leaves cv_.wait.
NotifyAll ==
    /\ cv_waiters' = {}
    /\ wpc' = [w \in WorkerIds |-> IF w \in cv_waiters THEN "top" ELSE wpc[w]]

-----------------------------------------------------------------------------
(* StartUnlocked, in two steps: the std::thread temporary is constructed (the *)
(* new thread exists from here on), then move-assigned to worker_thread_.     *)

\* Faulty variant: the thread is constructed but running_ is left as it was.
SpawnWorkerKeepsFlag(c) ==
    /\ nWorkers < MaxWorkers
    /\ running_' = running_
    /\ nWorkers' = nWorkers + 1
    /\ wpc' = [wpc EXCEPT ![nWorkers + 1] = "top"]
    /\ newWorker' = [newWorker EXCEPT ![c] = nWorkers + 1]
    /\ mutex_' = ByClient(c)

\* running_ = true; std::thread(&AsyncCallback::WorkerLoop, this)
SpawnWorker(c) ==
    /\ nWorkers < MaxWorkers
    /\ running_' = TRUE
    /\ nWorkers' = nWorkers + 1
    /\ wpc' = [wpc EXCEPT ![nWorkers + 1] = "top"]
    /\ newWorker' = [newWorker EXCEPT ![c] = nWorkers + 1]
    /\ mutex_' = ByClient(c)

\* std::thread::operator=(thread&&) calls std::terminate() when *this is joinable.
AssignTerminates == Joinable(worker_thread_)

-----------------------------------------------------------------------------
(* Start() *)

Start_Running(c) ==
    /\ Call(c)
    /\ mutex_ = Free
    /\ running_
    /\ pc' = [pc EXCEPT ![c] = "start_ret"]
    /\ DropPost(c) /\ DropWait(c) /\ DropStop(c)
    /\ UNCHANGED <<execVars, workerVars, taskVars, terminated>>
    /\ UNCHANGED <<newWorker, futures, taken, takenBy>>
    /\ UNCHANGED nonAsyncVars

Start_Spawn(c) ==
    /\ Call(c)
    /\ mutex_ = Free
    /\ ~running_
    /\ SpawnWorker(c)
    /\ pc' = [pc EXCEPT ![c] = "start_assign"]
    /\ DropPost(c) /\ DropWait(c) /\ DropStop(c)
    /\ UNCHANGED <<callbacks_, pending_futures_, worker_thread_, cv_waiters>>
    /\ UNCHANGED <<cur, taskVars, terminated, futures, taken, takenBy>>
    /\ UNCHANGED nonAsyncVars

Start_AssignTerminate(c) ==
    /\ pc[c] = "start_assign"
    /\ ~terminated
    /\ AssignTerminates
    /\ terminated' = TRUE
    /\ UNCHANGED <<execVars, workerVars, taskVars, clientVars>>
    /\ UNCHANGED nonAsyncVars

Start_Assign(c) ==
    /\ pc[c] = "start_assign"
    /\ ~terminated
    /\ ~AssignTerminates
    /\ worker_thread_' = newWorker[c]
    /\ mutex_' = Free
    /\ newWorker' = [newWorker EXCEPT ![c] = 0]
    /\ pc' = [pc EXCEPT ![c] = "start_ret"]
    /\ UNCHANGED <<running_, callbacks_, pending_futures_, cv_waiters, terminated>>
    /\ UNCHANGED <<workerVars, taskVars, calls, count, postLocals, waLocals, stopSnap>>
    /\ UNCHANGED nonAsyncVars

-----------------------------------------------------------------------------
(* Stop() *)

\* if (!running_) return;
Stop_NotRunning(c) ==
    /\ Call(c)
    /\ mutex_ = Free
    /\ ~running_
    /\ stopSnap' = [stopSnap EXCEPT ![c] = QueuedTasks]
    /\ pc' = [pc EXCEPT ![c] = "stop_ret"]
    /\ DropPost(c) /\ DropWait(c)
    /\ UNCHANGED <<execVars, workerVars, taskVars, terminated>>
    /\ UNCHANGED <<newWorker, futures, taken, takenBy>>
    /\ UNCHANGED nonAsyncVars

\* running_ = false; then, with the mutex released, cv_.notify_all()
Stop_Begin(c) ==
    /\ Call(c)
    /\ mutex_ = Free
    /\ running_
    /\ running_' = FALSE
    /\ NotifyAll
    /\ stopSnap' = [stopSnap EXCEPT ![c] = QueuedTasks]
    /\ pc' = [pc EXCEPT ![c] = "stop_join"]
    /\ DropPost(c) /\ DropWait(c)
    /\ UNCHANGED <<callbacks_, pending_futures_, worker_thread_, mutex_>>
    /\ UNCHANGED <<cur, nWorkers, taskVars, terminated>>
    /\ UNCHANGED <<newWorker, futures, taken, takenBy>>
    /\ UNCHANGED nonAsyncVars

\* Faulty variant: Stop() detaches the worker instead of waiting for it.
JoinDetached(t) == TRUE

\* std::thread::join() returns once the thread has exited.
JoinDone(t) == wpc[t] = "exited"

\* if (worker_thread_.joinable()) worker_thread_.join(); -- outside the mutex;
\* join() leaves worker_thread_ not joinable.
Stop_Join(c) ==
    /\ pc[c] = "stop_join"
    /\ ~terminated
    /\ IF Joinable(worker_thread_)
       THEN JoinDone(worker_thread_) /\ worker_thread_' = 0
       ELSE UNCHANGED worker_thread_
    /\ pc' = [pc EXCEPT ![c] = "stop_ret"]
    /\ UNCHANGED <<running_, callbacks_, pending_futures_, mutex_, cv_waiters>>
    /\ UNCHANGED <<workerVars, taskVars, terminated>>
    /\ UNCHANGED <<calls, count, newWorker, postLocals, waLocals, stopSnap>>
    /\ UNCHANGED nonAsyncVars

-----------------------------------------------------------------------------
(* Post(callback) and Post<T>(callback) *)

\* The future each form of Post holds after registering with the barrier:
\* the untyped form calls share() on the very future it returns, the typed form
\* shares a separate void future and keeps the typed one untouched.
HeldFuture(kd, k) == IF kd = "untyped" THEN Share(GetFuture(k)).moved ELSE GetFuture(k)

\* Faulty variant: Post does not register the future with the barrier.
RegisteredNothing(k) == pending_futures_

\* pending_futures_.push_back(...)
Registered(k) == Append(pending_futures_, Share(GetFuture(k)).shared)

\* callbacks_.push(...)
Pushed(k) == Append(callbacks_, k)

\* The rest of Post once the executor runs: register, push, then (mutex
\* released) cv_.notify_one() and return future.
Enqueue(c, kd, bd) ==
    /\ Room(bd)
    /\ nTasks' = nTasks + 1
    /\ kind' = [kind EXCEPT ![nTasks + 1] = kd]
    /\ body' = [body EXCEPT ![nTasks + 1] = bd]
    /\ pending_futures_' = Registered(nTasks + 1)
    /\ callbacks_' = Pushed(nTasks + 1)
    /\ NotifyOne
    /\ myTask' = [myTask EXCEPT ![c] = nTasks + 1]
    /\ handle' = [handle EXCEPT ![c] = HeldFuture(kd, nTasks + 1)]
    /\ getResult' = [getResult EXCEPT ![c] = "none"]
    /\ getValue' = [getValue EXCEPT ![c] = 0]
    /\ rearm' = [rearm EXCEPT ![c] = FALSE]
    /\ pc' = [pc EXCEPT ![c] = "post_ret"]
    /\ UNCHANGED <<pstate, tstate, tvalue, execOrder>>

Post_Running(c) ==
    /\ Call(c)
    /\ mutex_ = Free
    /\ running_
    /\ \E kd \in {"untyped", "typed"}, bd \in {"ok", "throw"} : Enqueue(c, kd, bd)
    /\ DropWait(c) /\ DropStop(c)
    /\ UNCHANGED <<running_, worker_thread_, mutex_>>
    /\ UNCHANGED <<cur, nWorkers, terminated, newWorker, futures, taken, takenBy>>
    /\ UNCHANGED nonAsyncVars

Post_Spawn(c) ==
    /\ Call(c)
    /\ mutex_ = Free
    /\ ~running_
    /\ Room("ok")
    /\ SpawnWorker(c)
    /\ pc' = [pc EXCEPT ![c] = "post_assign"]
    /\ rearm' = [rearm EXCEPT ![c] = (pc[c] = "stop_ret")]
    /\ DropHandle(c) /\ DropWait(c) /\ DropStop(c)
    /\ UNCHANGED <<callbacks_, pending_futures_, worker_thread_, cv_waiters>>
    /\ UNCHANGED <<cur, taskVars, terminated, futures, taken, takenBy>>
    /\ UNCHANGED nonAsyncVars

Post_AssignTerminate(c) ==
    /\ pc[c] = "post_assign"
    /\ ~terminated
    /\ AssignTerminates
    /\ terminated' = TRUE
    /\ UNCHANGED <<execVars, workerVars, taskVars, clientVars>>
    /\ UNCHANGED nonAsyncVars

Post_Assign(c) ==
    /\ pc[c] = "post_assign"
    /\ ~terminated
    /\ ~AssignTerminates
    /\ worker_thread_' = newWorker[c]
    /\ newWorker' = [newWorker EXCEPT ![c] = 0]
    /\ \E kd \in {"untyped", "typed"}, bd \in {"ok", "throw"} : Enqueue(c, kd, bd)
    /\ mutex_' = Free
    /\ UNCHANGED <<running_, cur, nWorkers, terminated>>
    /\ UNCHANGED <<calls, count, waLocals, stopSnap>>
    /\ UNCHANGED nonAsyncVars

\* Post of a callback that itself calls Post on the same executor.
PostNesting_Running(c) ==
    /\ Call(c)
    /\ mutex_ = Free
    /\ running_
    /\ Enqueue(c, "untyped", "post")
    /\ DropWait(c) /\ DropStop(c)
    /\ UNCHANGED <<running_, worker_thread_, mutex_>>
    /\ UNCHANGED <<cur, nWorkers, terminated, newWorker, futures, taken, takenBy>>
    /\ UNCHANGED nonAsyncVars

PostNesting_Assign(c) ==
    /\ pc[c] = "post_assign"
    /\ ~terminated
    /\ ~AssignTerminates
    /\ worker_thread_' = newWorker[c]
    /\ newWorker' = [newWorker EXCEPT ![c] = 0]
    /\ Enqueue(c, "untyped", "post")
    /\ mutex_' = Free
    /\ UNCHANGED <<running_, cur, nWorkers, terminated>>
    /\ UNCHANGED <<calls, count, waLocals, stopSnap>>
    /\ UNCHANGED nonAsyncVars

-----------------------------------------------------------------------------
(* WaitAll() *)

\* Faulty variant: the registry is cleared before it is copied.
SnapshotClearFirst == [taken |-> <<>>, left |-> <<>>]

\* Faulty variant: the registry is copied and not cleared.
SnapshotKeeps == [taken |-> pending_futures_, left |-> pending_futures_]

\* futures = pending_futures_; pending_futures_.clear();
Snapshot == [taken |-> pending_futures_, left |-> <<>>]

WaitAll_Snapshot(c) ==
    /\ Call(c)
    /\ mutex_ = Free
    /\ futures' = [futures EXCEPT ![c] = Snapshot.taken]
    /\ pending_futures_' = Snapshot.left
    /\ waSeen' = [waSeen EXCEPT ![c] = nTasks]
    /\ taken' = taken \cup Range(Snapshot.taken)
    /\ takenBy' = [k \in Tasks |-> IF k \in Range(Snapshot.taken) THEN c ELSE takenBy[k]]
    /\ pc' = [pc EXCEPT ![c] = "wa_wait"]
    /\ DropPost(c) /\ DropStop(c)
    /\ UNCHANGED <<running_, callbacks_, worker_thread_, mutex_, cv_waiters>>
    /\ UNCHANGED <<workerVars, taskVars, terminated, newWorker>>
    /\ UNCHANGED nonAsyncVars

\* Faulty variant: wait() returns whether or not the shared state is ready.
ReadyOrNot(k) == TRUE

\* std::shared_future<void>::wait() returns once the shared state is ready.
Ready(k) == pstate[k] # "Pending"

\* Faulty variant: the loop calls get(), which rethrows a stored exception.
WaitRethrows(k) == IF pstate[k] = "Failed" THEN "throws" ELSE "returns"

\* std::shared_future<void>::wait() only blocks; it never rethrows the
\* exception stored in the shared state.
WaitResult(k) == "returns"

\* for (auto& future : futures) future.wait();
\* An exception leaving the loop would end WaitAll() there ("wa_threw").
WaitAll_Wait(c) ==
    /\ pc[c] = "wa_wait"
    /\ ~terminated
    /\ futures[c] # <<>>
    /\ Ready(Head(futures[c]))
    /\ IF WaitResult(Head(futures[c])) = "throws"
       THEN /\ futures' = [futures EXCEPT ![c] = <<>>]
            /\ pc' = [pc EXCEPT ![c] = "wa_threw"]
       ELSE /\ futures' = [futures EXCEPT ![c] = Tail(@)]
            /\ pc' = pc
    /\ UNCHANGED <<execVars, workerVars, taskVars, terminated>>
    /\ UNCHANGED <<calls, count, newWorker, postLocals, waSeen, taken, takenBy, stopSnap>>
    /\ UNCHANGED nonAsyncVars

WaitAll_Return(c) ==
    /\ pc[c] = "wa_wait"
    /\ ~terminated
    /\ futures[c] = <<>>
    /\ pc' = [pc EXCEPT ![c] = "wa_ret"]
    /\ UNCHANGED <<execVars, workerVars, taskVars, terminated>>
    /\ UNCHANGED <<calls, count, newWorker, postLocals, waLocals, stopSnap>>
    /\ UNCHANGED nonAsyncVars

-----------------------------------------------------------------------------
(* GetPendingCount() *)

\* Faulty variant: the callback a worker is running is counted too.
SizeWithCurrent == Len(callbacks_) + Cardinality({w \in WorkerIds : wpc[w] = "run"})

\* callbacks_.size()
Size == Len(callbacks_)

\* std::lock_guard lock(mutex_); return callbacks_.size();
GetPendingCount(c) ==
    /\ pc[c] \in {"idle", "start_ret", "stop_ret", "post_ret", "wa_ret", "get_ret", "count_ret"}
    /\ calls < MaxCalls
    /\ ~terminated
    /\ mutex_ = Free
    /\ calls' = calls + 1
    /\ count' = [count EXCEPT ![c] = Size]
    /\ pc' = [pc EXCEPT ![c] = "count_ret"]
    /\ DropPost(c) /\ DropWait(c) /\ DropStop(c)
    /\ UNCHANGED <<execVars, workerVars, taskVars, terminated>>
    /\ UNCHANGED <<newWorker, futures, taken, takenBy>>
    /\ UNCHANGED nonAsyncVars

-----------------------------------------------------------------------------
(* future.get() on the future Post returned (async_callback_test.cc) *)

Get_Call(c) ==
    /\ pc[c] = "post_ret"
    /\ calls < MaxCalls
    /\ ~terminated
    /\ calls' = calls + 1
    /\ pc' = [pc EXCEPT ![c] = "get_wait"]
    /\ UNCHANGED <<execVars, workerVars, taskVars, terminated>>
    /\ UNCHANGED <<count, newWorker, postLocals, waLocals, stopSnap>>
    /\ UNCHANGED nonAsyncVars

\* The shared state a future obtained for task k refers to.
HandleState(k) == IF kind[k] = "typed" THEN tstate[k] ELSE pstate[k]

\* The value a future obtained for task k yields: the one its promise<T> holds
\* (nothing for a std::future<void>).
HeldValue(k) == IF kind[k] = "typed" THEN tvalue[k] ELSE 0

\* A valid future: get() blocks until the state is ready, yields the value or
\* rethrows the stored exception, and releases the state.
Get_Valid(c) ==
    /\ pc[c] = "get_wait"
    /\ ~terminated
    /\ handle[c].valid
    /\ HandleState(handle[c].task) # "Pending"
    /\ getResult' = [getResult EXCEPT ![c] =
           IF HandleState(handle[c].task) = "Failed" THEN "task_exception" ELSE "value"]
    /\ getValue' = [getValue EXCEPT ![c] = HeldValue(handle[c].task)]
    /\ handle' = [handle EXCEPT ![c].valid = FALSE]
    /\ pc' = [pc EXCEPT ![c] = "get_ret"]
    /\ UNCHANGED <<execVars, workerVars, taskVars, terminated>>
    /\ UNCHANGED <<calls, count, newWorker, myTask, rearm, waLocals, stopSnap>>
    /\ UNCHANGED nonAsyncVars

\* get() on a future without state is undefined: libstdc++ and MSVC throw
\* std::future_error(no_state) ...
Get_NoStateThrows(c) ==
    /\ pc[c] = "get_wait"
    /\ ~terminated
    /\ ~handle[c].valid
    /\ getResult' = [getResult EXCEPT ![c] = "future_error"]
    /\ pc' = [pc EXCEPT ![c] = "get_ret"]
    /\ UNCHANGED <<execVars, workerVars, taskVars, terminated>>
    /\ UNCHANGED <<calls, count, newWorker, myTask, handle, getValue, rearm, waLocals, stopSnap>>
    /\ UNCHANGED nonAsyncVars

\* ... and libc++ dereferences the null state.
Get_NoStateCrashes(c) ==
    /\ pc[c] = "get_wait"
    /\ ~terminated
    /\ ~handle[c].valid
    /\ terminated' = TRUE
    /\ UNCHANGED <<execVars, workerVars, taskVars, clientVars>>
    /\ UNCHANGED nonAsyncVars

-----------------------------------------------------------------------------
(* WorkerLoop() *)

\* Faulty variant: the worker takes callbacks_.back() instead of front().
FrontLifo == callbacks_[Len(callbacks_)]

\* Faulty variant: the callback is copied but never popped.
PoppedNothing == callbacks_

\* Faulty variant: taking one callback empties the queue.
PoppedAll == <<>>

\* callbacks_.front(); callbacks_.pop();
Front == Head(callbacks_)
Popped == Tail(callbacks_)

\* lock.unlock() before callback(): the mutex is free while the body runs.
UnlockedForBody(w) == Free

\* Pop the head and invoke it with the lock released.
Dequeue(w) ==
    /\ cur' = [cur EXCEPT ![w] = Front]
    /\ callbacks_' = Popped
    /\ execOrder' = Append(execOrder, Front)
    /\ wpc' = [wpc EXCEPT ![w] = "run"]
    /\ mutex_' = UnlockedForBody(w)

\* cv_.wait(lock, pred) with the predicate false: the worker blocks.
W_Park(w) ==
    /\ wpc[w] = "top"
    /\ ~terminated
    /\ mutex_ = Free
    /\ ~WaitPred
    /\ wpc' = [wpc EXCEPT ![w] = "parked"]
    /\ cv_waiters' = cv_waiters \cup {w}
    /\ UNCHANGED <<running_, callbacks_, pending_futures_, worker_thread_, mutex_>>
    /\ UNCHANGED <<cur, nWorkers, taskVars, clientVars, terminated>>
    /\ UNCHANGED nonAsyncVars

\* A condition variable may wake without a notification.
W_SpuriousWake(w) ==
    /\ wpc[w] = "parked"
    /\ ~terminated
    /\ wpc' = [wpc EXCEPT ![w] = "top"]
    /\ cv_waiters' = cv_waiters \ {w}
    /\ UNCHANGED <<running_, callbacks_, pending_futures_, worker_thread_, mutex_>>
    /\ UNCHANGED <<cur, nWorkers, taskVars, clientVars, terminated>>
    /\ UNCHANGED nonAsyncVars

\* Faulty variant: the worker leaves as soon as running_ is false, queue drained or not.
ExitWithoutDrain == ~running_

\* Faulty variant: the worker leaves whenever the wait returns.
ExitOnWake == TRUE

\* if (!running_ && callbacks_.empty()) break;
ExitCondition == ~running_ /\ callbacks_ = <<>>

W_Exit(w) ==
    /\ wpc[w] = "top"
    /\ ~terminated
    /\ mutex_ = Free
    /\ WaitPred
    /\ ExitCondition
    /\ wpc' = [wpc EXCEPT ![w] = "exited"]
    /\ UNCHANGED <<execVars, cur, nWorkers, taskVars, clientVars, terminated>>
    /\ UNCHANGED nonAsyncVars

\* The predicate holds and the queue is not empty: first iteration of the inner loop.
W_Dequeue(w) ==
    /\ wpc[w] = "top"
    /\ ~terminated
    /\ mutex_ = Free
    /\ WaitPred
    /\ ~ExitCondition
    /\ callbacks_ # <<>>
    /\ Dequeue(w)
    /\ UNCHANGED <<running_, pending_futures_, worker_thread_, cv_waiters>>
    /\ UNCHANGED <<nWorkers, nTasks, kind, body, pstate, tstate, tvalue, clientVars, terminated>>
    /\ UNCHANGED nonAsyncVars

\* Post called by the body that worker w is running: register and push a new
\* untyped task, cv_.notify_one(); the future returned is discarded.
NestedEnqueue(w, started) ==
    /\ nTasks' = nTasks + 1
    /\ kind' = [kind EXCEPT ![nTasks + 1] = "untyped"]
    /\ body' = [body EXCEPT ![nTasks + 1] = "ok"]
    /\ pending_futures_' = Registered(nTasks + 1)
    /\ callbacks_' = Pushed(nTasks + 1)
    /\ \E n \in (IF cv_waiters = {} THEN {0} ELSE cv_waiters) :
          /\ cv_waiters' = cv_waiters \ {n}
          /\ wpc' = [x \in WorkerIds |->
                       IF x = w THEN "posted"
                       ELSE IF x = n \/ x = started THEN "top" ELSE wpc[x]]

\* The body calls Post while the executor is running.
W_Post_Running(w) ==
    /\ wpc[w] = "run"
    /\ ~terminated
    /\ body[cur[w]] = "post"
    /\ mutex_ = Free
    /\ running_
    /\ nTasks < MaxTasks
    /\ NestedEnqueue(w, 0)
    /\ UNCHANGED <<running_, worker_thread_, mutex_, cur, nWorkers>>
    /\ UNCHANGED <<pstate, tstate, tvalue, execOrder, clientVars, terminated>>
    /\ UNCHANGED nonAsyncVars

\* The body calls Post while running_ is false (a Stop() is draining the
\* queue): Post calls StartUnlocked, which constructs a thread and assigns it
\* to worker_thread_ -- the thread this body runs on, still joinable.
W_Post_Spawn(w) ==
    /\ wpc[w] = "run"
    /\ ~terminated
    /\ body[cur[w]] = "post"
    /\ mutex_ = Free
    /\ ~running_
    /\ nWorkers < MaxWorkers
    /\ nTasks < MaxTasks
    /\ running_' = TRUE
    /\ nWorkers' = nWorkers + 1
    /\ IF AssignTerminates
       THEN /\ terminated' = TRUE
            /\ wpc' = [wpc EXCEPT ![nWorkers + 1] = "top", ![w] = "nested_abort"]
            /\ UNCHANGED <<callbacks_, pending_futures_, worker_thread_, cv_waiters>>
            /\ UNCHANGED <<nTasks, kind, body>>
       ELSE /\ terminated' = terminated
            /\ worker_thread_' = nWorkers + 1
            /\ NestedEnqueue(w, nWorkers + 1)
    /\ UNCHANGED <<mutex_, cur, pstate, tstate, tvalue, execOrder, clientVars>>
    /\ UNCHANGED nonAsyncVars

\* Faulty variant: the wrapper has no catch clause.
WrapperRethrows == FALSE

\* The wrapper lambda's try/catch (...) around callback().
WrapperCatches == TRUE

\* What the wrapper stores for a body that returned or threw.
Outcome(bd) == IF bd = "throw" THEN "Failed" ELSE "Fulfilled"

\* The value the body of typed task k returns: a different one for every task
\* (the test's callback returns 42).
Ret(k) == 41 + k

\* Faulty variant: the promise is given a default-constructed T.
SetValueDefault(v) == 0

\* promise->set_value(v): the shared state holds v.
SetValue(v) == v

\* Faulty variant: the wrapper of Post<T> resolves void_promise first.
ResolvedFirstSignal == "signal"

\* Post<T>: promise->set_value(callback()) comes before
\* void_promise->set_value(), promise->set_exception before
\* void_promise->set_exception.
ResolvedFirst == "typed"

\* callback() returns or throws; the wrapper resolves the first promise:
\* promise<void> for Post, promise<T> for Post<T>.
\* An exception that leaves the thread function calls std::terminate().
W_Body(w) ==
    /\ wpc[w] \in {"run", "posted"}
    /\ (wpc[w] = "posted") = (body[cur[w]] = "post")
    /\ ~terminated
    /\ IF body[cur[w]] = "throw" /\ ~WrapperCatches
       THEN /\ terminated' = TRUE
            /\ wpc' = [wpc EXCEPT ![w] = "uncaught"]
            /\ UNCHANGED <<pstate, tstate, tvalue>>
       ELSE /\ terminated' = terminated
            /\ IF kind[cur[w]] = "typed" /\ ResolvedFirst = "typed"
               THEN /\ tstate' = [tstate EXCEPT ![cur[w]] = Outcome(body[cur[w]])]
                    /\ tvalue' = [tvalue EXCEPT ![cur[w]] =
                           IF body[cur[w]] = "throw" THEN 0 ELSE SetValue(Ret(cur[w]))]
                    /\ wpc' = [wpc EXCEPT ![w] = "signal"]
                    /\ UNCHANGED pstate
               ELSE IF kind[cur[w]] = "typed"
               THEN /\ pstate' = [pstate EXCEPT ![cur[w]] = Outcome(body[cur[w]])]
                    /\ wpc' = [wpc EXCEPT ![w] = "signal"]
                    /\ UNCHANGED <<tstate, tvalue>>
               ELSE /\ pstate' = [pstate EXCEPT ![cur[w]] = Outcome(body[cur[w]])]
                    /\ wpc' = [wpc EXCEPT ![w] = "inner"]
                    /\ UNCHANGED <<tstate, tvalue>>
    /\ UNCHANGED <<execVars, cur, nWorkers, nTasks, kind, body, execOrder, clientVars>>
    /\ UNCHANGED nonAsyncVars

\* Faulty variant: the barrier signal is fulfilled whatever the callback did.
SignalAlwaysValue(k) == "Fulfilled"

\* Post<T>: the try branch runs void_promise->set_value() right after
\* promise->set_value(...); the catch branch hands the same exception_ptr to
\* promise->set_exception and void_promise->set_exception.
Signal(k) == tstate[k]

\* Post<T>: void_promise->set_value() / void_promise->set_exception(...)
W_Signal(w) ==
    /\ wpc[w] = "signal"
    /\ ~terminated
    /\ IF ResolvedFirst = "typed"
       THEN /\ pstate' = [pstate EXCEPT ![cur[w]] = Signal(cur[w])]
            /\ UNCHANGED <<tstate, tvalue>>
       ELSE /\ tstate' = [tstate EXCEPT ![cur[w]] = Outcome(body[cur[w]])]
            /\ tvalue' = [tvalue EXCEPT ![cur[w]] =
                   IF body[cur[w]] = "throw" THEN 0 ELSE SetValue(Ret(cur[w]))]
            /\ UNCHANGED pstate
    /\ wpc' = [wpc EXCEPT ![w] = "inner"]
    /\ UNCHANGED <<execVars, cur, nWorkers, nTasks, kind, body, execOrder>>
    /\ UNCHANGED <<clientVars, terminated>>
    /\ UNCHANGED nonAsyncVars

\* lock.lock(); while (!callbacks_.empty()): next iteration of the inner loop.
W_Next(w) ==
    /\ wpc[w] = "inner"
    /\ ~terminated
    /\ mutex_ = Free
    /\ callbacks_ # <<>>
    /\ Dequeue(w)
    /\ UNCHANGED <<running_, pending_futures_, worker_thread_, cv_waiters>>
    /\ UNCHANGED <<nWorkers, nTasks, kind, body, pstate, tstate, tvalue, clientVars, terminated>>
    /\ UNCHANGED nonAsyncVars

\* The inner loop ends; the unique_lock is released at the end of the iteration.
W_Drained(w) ==
    /\ wpc[w] = "inner"
    /\ ~terminated
    /\ mutex_ = Free
    /\ callbacks_ = <<>>
    /\ wpc' = [wpc EXCEPT ![w] = "top"]
    /\ UNCHANGED <<execVars, cur, nWorkers, taskVars, clientVars, terminated>>
    /\ UNCHANGED nonAsyncVars

-----------------------------------------------------------------------------

ClientStep(c) ==
    \/ Start_Running(c)
    \/ Start_Spawn(c)
    \/ Start_AssignTerminate(c)
    \/ Start_Assign(c)
    \/ Stop_NotRunning(c)
    \/ Stop_Begin(c)
    \/ Stop_Join(c)
    \/ Post_Running(c)
    \/ Post_Spawn(c)
    \/ Post_AssignTerminate(c)
    \/ Post_Assign(c)
    \/ WaitAll_Snapshot(c)
    \/ WaitAll_Wait(c)
    \/ WaitAll_Return(c)
    \/ Get_Call(c)
    \/ Get_Valid(c)
    \/ Get_NoStateThrows(c)
    \/ Get_NoStateCrashes(c)

WorkerStep(w) ==
    \/ W_Park(w)
    \/ W_SpuriousWake(w)
    \/ W_Exit(w)
    \/ W_Dequeue(w)
    \/ W_Body(w)
    \/ W_Signal(w)
    \/ W_Next(w)
    \/ W_Drained(w)

Next ==
    \/ \E c \in Clients : ClientStep(c)
    \/ \E w \in WorkerIds : WorkerStep(w)

Spec == Init /\ [][Next]_vars

-----------------------------------------------------------------------------
(* One producer thread that also posts callbacks which call Post themselves   *)
(* and asks for GetPendingCount().  The steps that need a second producer     *)
(* (an assignment onto a thread another caller's Stop() is joining) are not   *)
(* part of it.                                                                *)

ProducerStep(c) ==
    \/ Start_Running(c)
    \/ Start_Spawn(c)
    \/ Start_Assign(c)
    \/ Stop_NotRunning(c)
    \/ Stop_Begin(c)
    \/ Stop_Join(c)
    \/ Post_Running(c)
    \/ Post_Spawn(c)
    \/ Post_Assign(c)
    \/ PostNesting_Running(c)
    \/ PostNesting_Assign(c)
    \/ WaitAll_Snapshot(c)
    \/ WaitAll_Wait(c)
    \/ WaitAll_Return(c)
    \/ GetPendingCount(c)
    \/ Get_Call(c)
    \/ Get_Valid(c)
    \/ Get_NoStateThrows(c)
    \/ Get_NoStateCrashes(c)

NestedStep(w) ==
    \/ W_Post_Running(w)
    \/ W_Post_Spawn(w)

ProducerNext ==
    \/ ProducerStep("A")
    \/ \E w \in WorkerIds : WorkerStep(w) \/ NestedStep(w)

ProducerSpec == Init /\ [][ProducerNext]_vars

\* Scheduling: a thread that can take a step eventually takes it -- the worker
\* thread in WorkerLoop, and a client thread inside a call it has made.  No
\* client is obliged to make another call.
Continue(c) ==
    \/ Start_AssignTerminate(c) \/ Start_Assign(c)
    \/ Stop_Join(c)
    \/ Post_AssignTerminate(c) \/ Post_Assign(c)
    \/ WaitAll_Wait(c) \/ WaitAll_Return(c)
    \/ Get_Valid(c) \/ Get_NoStateThrows(c) \/ Get_NoStateCrashes(c)

FairSpec ==
    /\ Spec
    /\ \A c \in Clients : WF_vars(Continue(c))
    /\ \A w \in WorkerIds : WF_vars(WorkerStep(w))

-----------------------------------------------------------------------------
(* cLogger::Logger: Initialize, Log, Flush and Shutdown called by the        *)
(* threads of LogThreads, and the worker thread of the async mode.  A        *)
(* critical section is one step; queue_cv_.wait is split between the         *)
(* evaluation of its predicate and the moment the thread blocks, because     *)
(* async_running_ is written without queue_mutex_.                           *)

LogReturned == {"idle", "init_ret", "init_threw", "log_ret", "flush_ret", "shutdown_ret"}

\* A thread makes its next call on the logger.
LCall(t) ==
    /\ lpc[t] \in LogReturned
    /\ logCalls < MaxLogCalls
    /\ ~logAborted
    /\ logCalls' = logCalls + 1

\* The threads a notify_one may wake: one of those blocked, if any.
NotifyOneChoices == IF queue_waiters = {} THEN {{}} ELSE {{x} : x \in queue_waiters}

\* A woken worker is back at the evaluation of its wait predicate, a woken
\* Flush() at the re-evaluation of its own.
WokenWorker(S) == IF "W" \in S THEN "top" ELSE lwpc
WokenThreads(S, base) == [t \in LogThreads |-> IF t \in S THEN "flush_woken" ELSE base[t]]

\* Initialize(config) with async_mode = false (enable_file = false).
Initialize_Sync(t) ==
    /\ LCall(t)
    /\ logger_mutex_ = "none"
    /\ async_mode' = FALSE
    /\ lpc' = [lpc EXCEPT ![t] = "init_ret"]
    /\ UNCHANGED <<logger_mutex_, queue_mutex_, log_queue_, async_running_, async_thread_>>
    /\ UNCHANGED <<queue_waiters, lwpc, log_entry, written, nEntries, logAborted>>
    /\ atCall' = [atCall EXCEPT ![t] = NotAtCall]
    /\ UNCHANGED nonLoggerVars

\* Initialize(config) with async_mode = true: lock_guard on mutex_,
\* config_ = config, and the call of StartAsyncWorker() with mutex_ held.
Initialize_Async(t) ==
    /\ LCall(t)
    /\ logger_mutex_ = "none"
    /\ async_mode' = TRUE
    /\ logger_mutex_' = t
    /\ lpc' = [lpc EXCEPT ![t] = "init_start"]
    /\ UNCHANGED <<queue_mutex_, log_queue_, async_running_, async_thread_>>
    /\ UNCHANGED <<queue_waiters, lwpc, log_entry, written, nEntries, logAborted>>
    /\ atCall' = [atCall EXCEPT ![t] = NotAtCall]
    /\ UNCHANGED nonLoggerVars

\* StartAsyncWorker() locks mutex_, which its caller Initialize() holds.
\* Locking a std::mutex the thread owns is undefined: the call blocks for ever
\* (a default pthread mutex), ...
StartAsyncWorker_Blocks(t) ==
    /\ lpc[t] = "init_start"
    /\ ~logAborted
    /\ lpc' = [lpc EXCEPT ![t] = "init_blocked"]
    /\ UNCHANGED <<async_mode, logger_mutex_, queue_mutex_, log_queue_, async_running_>>
    /\ UNCHANGED <<async_thread_, queue_waiters, lwpc, log_entry, written, nEntries>>
    /\ UNCHANGED <<logCalls, logAborted>>
    /\ UNCHANGED atCall
    /\ UNCHANGED nonLoggerVars

\* ... or throws std::system_error (an implementation that checks the owner):
\* the exception leaves Initialize(), whose lock_guard releases mutex_, ...
StartAsyncWorker_Throws(t) ==
    /\ lpc[t] = "init_start"
    /\ ~logAborted
    /\ logger_mutex_' = "none"
    /\ lpc' = [lpc EXCEPT ![t] = "init_threw"]
    /\ UNCHANGED <<async_mode, queue_mutex_, log_queue_, async_running_>>
    /\ UNCHANGED <<async_thread_, queue_waiters, lwpc, log_entry, written, nEntries>>
    /\ UNCHANGED <<logCalls, logAborted>>
    /\ UNCHANGED atCall
    /\ UNCHANGED nonLoggerVars

\* ... or returns as if the lock had been taken (an implementation that does
\* not check).  if (async_running_) return;
StartAsyncWorker_Running(t) ==
    /\ lpc[t] = "init_start"
    /\ ~logAborted
    /\ async_running_
    /\ logger_mutex_' = "none"
    /\ lpc' = [lpc EXCEPT ![t] = "init_ret"]
    /\ UNCHANGED <<async_mode, queue_mutex_, log_queue_, async_running_>>
    /\ UNCHANGED <<async_thread_, queue_waiters, lwpc, log_entry, written, nEntries>>
    /\ UNCHANGED <<logCalls, logAborted>>
    /\ UNCHANGED atCall
    /\ UNCHANGED nonLoggerVars

\* async_running_ = true; async_thread_ = std::thread(&Logger::AsyncWorkerLoop, this);
StartAsyncWorker_Spawn(t) ==
    /\ lpc[t] = "init_start"
    /\ ~logAborted
    /\ ~async_running_
    /\ ~async_thread_
    /\ async_running_' = TRUE
    /\ async_thread_' = TRUE
    /\ lwpc' = "top"
    /\ logger_mutex_' = "none"
    /\ lpc' = [lpc EXCEPT ![t] = "init_ret"]
    /\ UNCHANGED <<async_mode, queue_mutex_, log_queue_, queue_waiters, log_entry>>
    /\ UNCHANGED <<written, nEntries, logCalls, logAborted>>
    /\ UNCHANGED atCall
    /\ UNCHANGED nonLoggerVars

\* The same assignment while async_thread_ is joinable (a StopAsyncWorker()
\* of another thread has cleared async_running_ and has not finished join()):
\* std::thread::operator= calls std::terminate().
StartAsyncWorker_Terminate(t) ==
    /\ lpc[t] = "init_start"
    /\ ~logAborted
    /\ ~async_running_
    /\ async_thread_
    /\ async_running_' = TRUE
    /\ logAborted' = TRUE
    /\ UNCHANGED <<async_mode, logger_mutex_, queue_mutex_, log_queue_, async_thread_>>
    /\ UNCHANGED <<queue_waiters, lwpc, log_entry, written, lpc, nEntries, logCalls>>
    /\ UNCHANGED atCall
    /\ UNCHANGED nonLoggerVars

\* Log, async mode: lock queue_mutex_, log_queue_.push(log_entry),
\* queue_cv_.notify_one().
Log_Async(t) ==
    /\ LCall(t)
    /\ async_mode
    /\ queue_mutex_ = "none"
    /\ nEntries' = nEntries + 1
    /\ log_queue_' = Append(log_queue_, nEntries + 1)
    /\ \E S \in NotifyOneChoices :
          /\ queue_waiters' = queue_waiters \ S
          /\ lwpc' = WokenWorker(S)
          /\ lpc' = WokenThreads(S, [lpc EXCEPT ![t] = "log_ret"])
    /\ UNCHANGED <<async_mode, logger_mutex_, queue_mutex_, async_running_, async_thread_>>
    /\ UNCHANGED <<log_entry, written, logAborted>>
    /\ atCall' = [atCall EXCEPT ![t] = NotAtCall]
    /\ UNCHANGED nonLoggerVars

\* Log, sync mode: WriteLog(log_entry) under mutex_.
Log_Sync(t) ==
    /\ LCall(t)
    /\ ~async_mode
    /\ logger_mutex_ = "none"
    /\ nEntries' = nEntries + 1
    /\ written' = Append(written, nEntries + 1)
    /\ lpc' = [lpc EXCEPT ![t] = "log_ret"]
    /\ UNCHANGED <<async_mode, logger_mutex_, queue_mutex_, log_queue_, async_running_>>
    /\ UNCHANGED <<async_thread_, queue_waiters, lwpc, log_entry, logAborted>>
    /\ atCall' = [atCall EXCEPT ![t] = NotAtCall]
    /\ UNCHANGED nonLoggerVars

\* Flush, sync mode: straight to the flush of the streams.
Flush_Sync(t) ==
    /\ LCall(t)
    /\ ~async_mode
    /\ lpc' = [lpc EXCEPT ![t] = "flush_io"]
    /\ UNCHANGED <<async_mode, logger_mutex_, queue_mutex_, log_queue_, async_running_>>
    /\ UNCHANGED <<async_thread_, queue_waiters, lwpc, log_entry, written, nEntries>>
    /\ UNCHANGED logAborted
    /\ atCall' = [atCall EXCEPT ![t] = [n |-> nEntries, async |-> FALSE]]
    /\ UNCHANGED nonLoggerVars

\* The predicate of Flush's wait: [this] { return log_queue_.empty(); }
FlushPred == log_queue_ = <<>>

\* Flush, async mode: queue_cv_.wait(lock, pred) with the predicate true.
Flush_Empty(t) ==
    /\ LCall(t)
    /\ async_mode
    /\ queue_mutex_ = "none"
    /\ FlushPred
    /\ lpc' = [lpc EXCEPT ![t] = "flush_io"]
    /\ UNCHANGED <<async_mode, logger_mutex_, queue_mutex_, log_queue_, async_running_>>
    /\ UNCHANGED <<async_thread_, queue_waiters, lwpc, log_entry, written, nEntries>>
    /\ UNCHANGED logAborted
    /\ atCall' = [atCall EXCEPT ![t] = [n |-> nEntries, async |-> TRUE]]
    /\ UNCHANGED nonLoggerVars

\* Flush, async mode: the predicate is false and the thread blocks on queue_cv_.
Flush_Wait(t) ==
    /\ LCall(t)
    /\ async_mode
    /\ queue_mutex_ = "none"
    /\ ~FlushPred
    /\ queue_waiters' = queue_waiters \cup {t}
    /\ lpc' = [lpc EXCEPT ![t] = "flush_wait"]
    /\ UNCHANGED <<async_mode, logger_mutex_, queue_mutex_, log_queue_, async_running_>>
    /\ UNCHANGED <<async_thread_, lwpc, log_entry, written, nEntries, logAborted>>
    /\ atCall' = [atCall EXCEPT ![t] = [n |-> nEntries, async |-> TRUE]]
    /\ UNCHANGED nonLoggerVars

\* A condition variable may wake without a notification.
Flush_SpuriousWake(t) ==
    /\ lpc[t] = "flush_wait"
    /\ ~logAborted
    /\ queue_waiters' = queue_waiters \ {t}
    /\ lpc' = [lpc EXCEPT ![t] = "flush_woken"]
    /\ UNCHANGED <<async_mode, logger_mutex_, queue_mutex_, log_queue_, async_running_>>
    /\ UNCHANGED <<async_thread_, lwpc, log_entry, written, nEntries, logCalls, logAborted>>
    /\ UNCHANGED atCall
    /\ UNCHANGED nonLoggerVars

\* A woken Flush() takes queue_mutex_ again and re-evaluates its predicate.
Flush_Recheck(t) ==
    /\ lpc[t] = "flush_woken"
    /\ ~logAborted
    /\ queue_mutex_ = "none"
    /\ IF FlushPred
       THEN /\ lpc' = [lpc EXCEPT ![t] = "flush_io"]
            /\ UNCHANGED queue_waiters
       ELSE /\ lpc' = [lpc EXCEPT ![t] = "flush_wait"]
            /\ queue_waiters' = queue_waiters \cup {t}
    /\ UNCHANGED <<async_mode, logger_mutex_, queue_mutex_, log_queue_, async_running_>>
    /\ UNCHANGED <<async_thread_, lwpc, log_entry, written, nEntries, logCalls, logAborted>>
    /\ UNCHANGED atCall
    /\ UNCHANGED nonLoggerVars

\* lock_guard on mutex_; log_file_.flush(); std::cout.flush();
Flush_Io(t) ==
    /\ lpc[t] = "flush_io"
    /\ ~logAborted
    /\ logger_mutex_ = "none"
    /\ lpc' = [lpc EXCEPT ![t] = "flush_ret"]
    /\ UNCHANGED <<async_mode, logger_mutex_, queue_mutex_, log_queue_, async_running_>>
    /\ UNCHANGED <<async_thread_, queue_waiters, lwpc, log_entry, written, nEntries>>
    /\ UNCHANGED <<logCalls, logAborted>>
    /\ UNCHANGED atCall
    /\ UNCHANGED nonLoggerVars

\* Shutdown, sync mode: StopAsyncWorker() is not called.
Shutdown_Sync(t) ==
    /\ LCall(t)
    /\ ~async_mode
    /\ lpc' = [lpc EXCEPT ![t] = "shutdown_close"]
    /\ UNCHANGED <<async_mode, logger_mutex_, queue_mutex_, log_queue_, async_running_>>
    /\ UNCHANGED <<async_thread_, queue_waiters, lwpc, log_entry, written, nEntries>>
    /\ UNCHANGED logAborted
    /\ atCall' = [atCall EXCEPT ![t] = [n |-> nEntries, async |-> FALSE]]
    /\ UNCHANGED nonLoggerVars

\* StopAsyncWorker: if (!async_running_) return;
StopAsyncWorker_NotRunning(t) ==
    /\ LCall(t)
    /\ async_mode
    /\ logger_mutex_ = "none"
    /\ ~async_running_
    /\ lpc' = [lpc EXCEPT ![t] = "shutdown_close"]
    /\ UNCHANGED <<async_mode, logger_mutex_, queue_mutex_, log_queue_, async_running_>>
    /\ UNCHANGED <<async_thread_, queue_waiters, lwpc, log_entry, written, nEntries>>
    /\ UNCHANGED logAborted
    /\ atCall' = [atCall EXCEPT ![t] = [n |-> nEntries, async |-> TRUE]]
    /\ UNCHANGED nonLoggerVars

\* StopAsyncWorker: async_running_ = false under mutex_.
StopAsyncWorker_Begin(t) ==
    /\ LCall(t)
    /\ async_mode
    /\ logger_mutex_ = "none"
    /\ async_running_
    /\ async_running_' = FALSE
    /\ lpc' = [lpc EXCEPT ![t] = "stop_notify"]
    /\ UNCHANGED <<async_mode, logger_mutex_, queue_mutex_, log_queue_>>
    /\ UNCHANGED <<async_thread_, queue_waiters, lwpc, log_entry, written, nEntries>>
    /\ UNCHANGED logAborted
    /\ atCall' = [atCall EXCEPT ![t] = [n |-> nEntries, async |-> TRUE]]
    /\ UNCHANGED nonLoggerVars

\* queue_cv_.notify_all(), with no mutex held.
StopAsyncWorker_Notify(t) ==
    /\ lpc[t] = "stop_notify"
    /\ ~logAborted
    /\ queue_waiters' = {}
    /\ lwpc' = WokenWorker(queue_waiters)
    /\ lpc' = WokenThreads(queue_waiters, [lpc EXCEPT ![t] = "stop_join"])
    /\ UNCHANGED <<async_mode, logger_mutex_, queue_mutex_, log_queue_, async_running_>>
    /\ UNCHANGED <<async_thread_, log_entry, written, nEntries, logCalls, logAborted>>
    /\ UNCHANGED atCall
    /\ UNCHANGED nonLoggerVars

\* if (async_thread_.joinable()) async_thread_.join();
StopAsyncWorker_Join(t) ==
    /\ lpc[t] = "stop_join"
    /\ ~logAborted
    /\ async_thread_ => lwpc = "exited"
    /\ async_thread_' = FALSE
    /\ lwpc' = IF async_thread_ THEN "none" ELSE lwpc
    /\ lpc' = [lpc EXCEPT ![t] = "stop_drain"]
    /\ UNCHANGED <<async_mode, logger_mutex_, queue_mutex_, log_queue_, async_running_>>
    /\ UNCHANGED <<queue_waiters, log_entry, written, nEntries, logCalls, logAborted>>
    /\ UNCHANGED atCall
    /\ UNCHANGED nonLoggerVars

\* lock_guard on queue_mutex_; while (!log_queue_.empty()):
\* WriteLog(log_queue_.front()); log_queue_.pop();
StopAsyncWorker_DrainOne(t) ==
    /\ lpc[t] = "stop_drain"
    /\ ~logAborted
    /\ queue_mutex_ \in {"none", t}
    /\ logger_mutex_ = "none"
    /\ log_queue_ # <<>>
    /\ queue_mutex_' = t
    /\ written' = Append(written, Head(log_queue_))
    /\ log_queue_' = Tail(log_queue_)
    /\ UNCHANGED <<async_mode, logger_mutex_, async_running_, async_thread_>>
    /\ UNCHANGED <<queue_waiters, lwpc, log_entry, lpc, nEntries, logCalls, logAborted>>
    /\ UNCHANGED atCall
    /\ UNCHANGED nonLoggerVars

\* The loop ends; StopAsyncWorker returns to Shutdown.
StopAsyncWorker_Drained(t) ==
    /\ lpc[t] = "stop_drain"
    /\ ~logAborted
    /\ queue_mutex_ \in {"none", t}
    /\ log_queue_ = <<>>
    /\ queue_mutex_' = "none"
    /\ lpc' = [lpc EXCEPT ![t] = "shutdown_close"]
    /\ UNCHANGED <<async_mode, logger_mutex_, log_queue_, async_running_, async_thread_>>
    /\ UNCHANGED <<queue_waiters, lwpc, log_entry, written, nEntries, logCalls, logAborted>>
    /\ UNCHANGED atCall
    /\ UNCHANGED nonLoggerVars

\* Shutdown: lock_guard on mutex_; close the file if it is open.
Shutdown_Close(t) ==
    /\ lpc[t] = "shutdown_close"
    /\ ~logAborted
    /\ logger_mutex_ = "none"
    /\ lpc' = [lpc EXCEPT ![t] = "shutdown_ret"]
    /\ UNCHANGED <<async_mode, logger_mutex_, queue_mutex_, log_queue_, async_running_>>
    /\ UNCHANGED <<async_thread_, queue_waiters, lwpc, log_entry, written, nEntries>>
    /\ UNCHANGED <<logCalls, logAborted>>
    /\ UNCHANGED atCall
    /\ UNCHANGED nonLoggerVars

\* The predicate of the worker's wait:
\* [this] { return !log_queue_.empty() || !async_running_; }
WorkerPred == log_queue_ # <<>> \/ ~async_running_

\* if (!async_running_ && log_queue_.empty()) break;
LW_Exit ==
    /\ lwpc = "top"
    /\ ~logAborted
    /\ queue_mutex_ = "none"
    /\ WorkerPred
    /\ ~async_running_ /\ log_queue_ = <<>>
    /\ lwpc' = "exited"
    /\ UNCHANGED <<async_mode, logger_mutex_, queue_mutex_, log_queue_, async_running_>>
    /\ UNCHANGED <<async_thread_, queue_waiters, log_entry, written, lpc, nEntries>>
    /\ UNCHANGED <<logCalls, logAborted>>
    /\ UNCHANGED atCall
    /\ UNCHANGED nonLoggerVars

\* log_entry = log_queue_.front(); log_queue_.pop(); lock.unlock();
LW_Dequeue ==
    /\ lwpc \in {"top", "relock"}
    /\ ~logAborted
    /\ queue_mutex_ = "none"
    /\ log_queue_ # <<>>
    /\ log_entry' = Head(log_queue_)
    /\ log_queue_' = Tail(log_queue_)
    /\ lwpc' = "write"
    /\ UNCHANGED <<async_mode, logger_mutex_, queue_mutex_, async_running_>>
    /\ UNCHANGED <<async_thread_, queue_waiters, written, lpc, nEntries>>
    /\ UNCHANGED <<logCalls, logAborted>>
    /\ UNCHANGED atCall
    /\ UNCHANGED nonLoggerVars

\* The predicate is false: the worker, holding queue_mutex_, is about to block.
LW_Block ==
    /\ lwpc = "top"
    /\ ~logAborted
    /\ queue_mutex_ = "none"
    /\ ~WorkerPred
    /\ queue_mutex_' = "W"
    /\ lwpc' = "blocking"
    /\ UNCHANGED <<async_mode, logger_mutex_, log_queue_, async_running_>>
    /\ UNCHANGED <<async_thread_, queue_waiters, log_entry, written, lpc, nEntries>>
    /\ UNCHANGED <<logCalls, logAborted>>
    /\ UNCHANGED atCall
    /\ UNCHANGED nonLoggerVars

\* wait(lock): queue_mutex_ is released and the worker blocks on queue_cv_.
LW_Park ==
    /\ lwpc = "blocking"
    /\ ~logAborted
    /\ queue_mutex_' = "none"
    /\ queue_waiters' = queue_waiters \cup {"W"}
    /\ lwpc' = "parked"
    /\ UNCHANGED <<async_mode, logger_mutex_, log_queue_, async_running_>>
    /\ UNCHANGED <<async_thread_, log_entry, written, lpc, nEntries>>
    /\ UNCHANGED <<logCalls, logAborted>>
    /\ UNCHANGED atCall
    /\ UNCHANGED nonLoggerVars

\* A condition variable may wake without a notification.
LW_SpuriousWake ==
    /\ lwpc = "parked"
    /\ ~logAborted
    /\ queue_waiters' = queue_waiters \ {"W"}
    /\ lwpc' = "top"
    /\ UNCHANGED <<async_mode, logger_mutex_, queue_mutex_, log_queue_, async_running_>>
    /\ UNCHANGED <<async_thread_, log_entry, written, lpc, nEntries>>
    /\ UNCHANGED <<logCalls, logAborted>>
    /\ UNCHANGED atCall
    /\ UNCHANGED nonLoggerVars

\* WriteLog(log_entry) under mutex_, queue_mutex_ released.
LW_Write ==
    /\ lwpc = "write"
    /\ ~logAborted
    /\ logger_mutex_ = "none"
    /\ written' = Append(written, log_entry)
    /\ log_entry' = 0
    /\ lwpc' = "relock"
    /\ UNCHANGED <<async_mode, logger_mutex_, queue_mutex_, log_queue_, async_running_>>
    /\ UNCHANGED <<async_thread_, queue_waiters, lpc, nEntries>>
    /\ UNCHANGED <<logCalls, logAborted>>
    /\ UNCHANGED atCall
    /\ UNCHANGED nonLoggerVars

\* lock.lock(); the inner loop ends on an empty queue and the outer loop
\* starts over.
LW_Drained ==
    /\ lwpc = "relock"
    /\ ~logAborted
    /\ queue_mutex_ = "none"
    /\ log_queue_ = <<>>
    /\ lwpc' = "top"
    /\ UNCHANGED <<async_mode, logger_mutex_, queue_mutex_, log_queue_, async_running_>>
    /\ UNCHANGED <<async_thread_, queue_waiters, log_entry, written, lpc, nEntries>>
    /\ UNCHANGED <<logCalls, logAborted>>
    /\ UNCHANGED atCall
    /\ UNCHANGED nonLoggerVars

\* What a thread does inside a call it has made.
LogContinue(t) ==
    \/ StartAsyncWorker_Blocks(t)
    \/ StartAsyncWorker_Throws(t)
    \/ StartAsyncWorker_Running(t)
    \/ StartAsyncWorker_Spawn(t)
    \/ StartAsyncWorker_Terminate(t)
    \/ Flush_Recheck(t)
    \/ Flush_Io(t)
    \/ StopAsyncWorker_Notify(t)
    \/ StopAsyncWorker_Join(t)
    \/ StopAsyncWorker_DrainOne(t)
    \/ StopAsyncWorker_Drained(t)
    \/ Shutdown_Close(t)

LogThreadStep(t) ==
    \/ Initialize_Sync(t)
    \/ Initialize_Async(t)
    \/ Log_Async(t)
    \/ Log_Sync(t)
    \/ Flush_Sync(t)
    \/ Flush_Empty(t)
    \/ Flush_Wait(t)
    \/ Flush_SpuriousWake(t)
    \/ Shutdown_Sync(t)
    \/ StopAsyncWorker_NotRunning(t)
    \/ StopAsyncWorker_Begin(t)
    \/ LogContinue(t)

\* The steps of the worker that do not depend on a spurious wake-up.
LogWorkerRuns ==
    \/ LW_Exit
    \/ LW_Dequeue
    \/ LW_Block
    \/ LW_Park
    \/ LW_Write
    \/ LW_Drained

LoggerNext ==
    \/ \E t \in LogThreads : LogThreadStep(t)
    \/ LogWorkerRuns
    \/ LW_SpuriousWake

LoggerSpec == Init /\ [][LoggerNext]_vars

\* Scheduling: the worker and every thread inside a call take the steps they
\* can take; no thread is obliged to make another call, and no wait is
\* obliged to wake without a notification.
LoggerFairSpec ==
    /\ LoggerSpec
    /\ \A t \in LogThreads : WF_vars(LogContinue(t))
    /\ WF_vars(LogWorkerRuns)

-----------------------------------------------------------------------------
(* cObjectPool::ObjectPool<T>.  Every operation runs under mutex_ from its   *)
(* first to its last statement, so each is one step.  An ObjectPtr is a      *)
(* shared_ptr whose deleter is Release: dropping the last copy of a handle   *)
(* is the step Release.                                                      *)

\* size_t arithmetic wraps: 0 - 1 is the largest value of the type (the model
\* has the width of its integers where size_t has 64 bits).
SizeMax == 2147483647
Inc(n) == IF n = SizeMax THEN 0 ELSE n + 1
Dec(n) == IF n = 0 THEN SizeMax ELSE n - 1

\* ObjectPool(factory, reset, max_size)
Pool_Construct(m) ==
    /\ ~pool_made
    /\ pool_made' = TRUE
    /\ max_size_' = m
    /\ UNCHANGED <<pool_, current_size_, handed, nObjects, acquired>>
    /\ UNCHANGED nonPoolVars

\* if (max_size_ == 0 || current_size_ < max_size_)
MayCreate == max_size_ = 0 \/ current_size_ < max_size_

\* Acquire: the pool is not empty; its front object is handed out.
Acquire_Reuse ==
    /\ pool_made
    /\ pool_ # <<>>
    /\ acquired' = Head(pool_)
    /\ handed' = handed \cup {Head(pool_)}
    /\ pool_' = Tail(pool_)
    /\ UNCHANGED <<pool_made, max_size_, current_size_, nObjects>>
    /\ UNCHANGED nonPoolVars

\* Acquire: the pool is empty and a new object may be made: current_size_++,
\* factory_() returns an object.
Acquire_Create ==
    /\ pool_made
    /\ pool_ = <<>>
    /\ MayCreate
    /\ nObjects < MaxObjects
    /\ current_size_' = Inc(current_size_)
    /\ nObjects' = nObjects + 1
    /\ acquired' = nObjects + 1
    /\ handed' = handed \cup {nObjects + 1}
    /\ UNCHANGED <<pool_made, max_size_, pool_>>
    /\ UNCHANGED nonPoolVars

\* Acquire: factory_() returns no object: current_size_++ is taken back and
\* nullptr is returned.
Acquire_FactoryNull ==
    /\ pool_made
    /\ pool_ = <<>>
    /\ MayCreate
    /\ current_size_' = Dec(Inc(current_size_))
    /\ acquired' = 0
    /\ UNCHANGED <<pool_made, max_size_, pool_, handed, nObjects>>
    /\ UNCHANGED nonPoolVars

\* Acquire: the pool is empty and the limit is reached: nullptr.
Acquire_Full ==
    /\ pool_made
    /\ pool_ = <<>>
    /\ ~MayCreate
    /\ acquired' = 0
    /\ UNCHANGED <<pool_made, max_size_, pool_, current_size_, handed, nObjects>>
    /\ UNCHANGED nonPoolVars

\* if (max_size_ == 0 || pool_.size() < max_size_)
MayKeep == max_size_ = 0 \/ Len(pool_) < max_size_

\* Release: the object goes back into the pool.
Release_Keep(o) ==
    /\ o \in handed
    /\ MayKeep
    /\ pool_' = Append(pool_, o)
    /\ handed' = handed \ {o}
    /\ UNCHANGED <<pool_made, max_size_, current_size_, nObjects, acquired>>
    /\ UNCHANGED nonPoolVars

\* Release: the pool is full: delete ptr; current_size_--;
Release_Delete(o) ==
    /\ o \in handed
    /\ ~MayKeep
    /\ current_size_' = Dec(current_size_)
    /\ handed' = handed \ {o}
    /\ UNCHANGED <<pool_made, max_size_, pool_, nObjects, acquired>>
    /\ UNCHANGED nonPoolVars

\* Clear: every idle object is destroyed; current_size_ = 0.
Pool_Clear ==
    /\ pool_made
    /\ pool_' = <<>>
    /\ current_size_' = 0
    /\ UNCHANGED <<pool_made, max_size_, handed, nObjects, acquired>>
    /\ UNCHANGED nonPoolVars

PoolNext ==
    \/ \E m \in 0..MaxPoolSize : Pool_Construct(m)
    \/ Acquire_Reuse
    \/ Acquire_Create
    \/ Acquire_FactoryNull
    \/ Acquire_Full
    \/ \E o \in Objects : Release_Keep(o)
    \/ \E o \in Objects : Release_Delete(o)
    \/ Pool_Clear

PoolSpec == Init /\ [][PoolNext]_vars

-----------------------------------------------------------------------------
(* cCommand::CommandManager with FunctionalCommand objects.  Each Execute    *)
(* is given a new command, with or without an undo function.                 *)

\* FunctionalCommand::CanUndo()
CommandCanUndo(k) == undo_func_[k]

\* CommandManager::CanUndo() / CanRedo()
CanUndo == undo_stack_ # <<>>
CanRedo == redo_stack_ # <<>>

Top(stack) == stack[Len(stack)]
Pop(stack) == SubSeq(stack, 1, Len(stack) - 1)

\* Execute(nullptr): if (!command) return;
Execute_Null ==
    /\ lastCall' = [op |-> "execute", ret |-> FALSE, can |-> FALSE, cmd |-> 0, ran |-> "none"]
    /\ UNCHANGED <<undo_stack_, redo_stack_, undo_func_, applied, nCommands>>
    /\ UNCHANGED nonCommandVars

\* Execute(command): command->Execute(); undo_stack_.push(command); the redo
\* stack is emptied.
Execute_Command(withUndo) ==
    /\ nCommands < MaxCommands
    /\ nCommands' = nCommands + 1
    /\ undo_func_' = [undo_func_ EXCEPT ![nCommands + 1] = withUndo]
    /\ applied' = [applied EXCEPT ![nCommands + 1] = TRUE]
    /\ undo_stack_' = Append(undo_stack_, nCommands + 1)
    /\ redo_stack_' = <<>>
    /\ lastCall' = [op |-> "execute", ret |-> TRUE, can |-> TRUE,
                    cmd |-> nCommands + 1, ran |-> "execute"]
    /\ UNCHANGED nonCommandVars

\* Undo: if (undo_stack_.empty()) return false;
Undo_Empty ==
    /\ undo_stack_ = <<>>
    /\ lastCall' = [op |-> "undo", ret |-> FALSE, can |-> CanUndo, cmd |-> 0, ran |-> "none"]
    /\ UNCHANGED <<undo_stack_, redo_stack_, undo_func_, applied, nCommands>>
    /\ UNCHANGED nonCommandVars

\* Undo: the top command is popped; it can be undone: command->Undo();
\* redo_stack_.push(command); return true;
Undo_Done ==
    /\ undo_stack_ # <<>>
    /\ CommandCanUndo(Top(undo_stack_))
    /\ undo_stack_' = Pop(undo_stack_)
    /\ applied' = [applied EXCEPT ![Top(undo_stack_)] = FALSE]
    /\ redo_stack_' = Append(redo_stack_, Top(undo_stack_))
    /\ lastCall' = [op |-> "undo", ret |-> TRUE, can |-> CanUndo,
                    cmd |-> Top(undo_stack_), ran |-> "undo"]
    /\ UNCHANGED <<undo_func_, nCommands>>
    /\ UNCHANGED nonCommandVars

\* Undo: the top command is popped; it cannot be undone: return false;
Undo_Refused ==
    /\ undo_stack_ # <<>>
    /\ ~CommandCanUndo(Top(undo_stack_))
    /\ undo_stack_' = Pop(undo_stack_)
    /\ lastCall' = [op |-> "undo", ret |-> FALSE, can |-> CanUndo,
                    cmd |-> Top(undo_stack_), ran |-> "none"]
    /\ UNCHANGED <<redo_stack_, undo_func_, applied, nCommands>>
    /\ UNCHANGED nonCommandVars

\* Redo: if (redo_stack_.empty()) return false;
Redo_Empty ==
    /\ redo_stack_ = <<>>
    /\ lastCall' = [op |-> "redo", ret |-> FALSE, can |-> CanRedo, cmd |-> 0, ran |-> "none"]
    /\ UNCHANGED <<undo_stack_, redo_stack_, undo_func_, applied, nCommands>>
    /\ UNCHANGED nonCommandVars

\* Redo: the top command is popped, executed and pushed on the undo stack.
Redo_Done ==
    /\ redo_stack_ # <<>>
    /\ redo_stack_' = Pop(redo_stack_)
    /\ applied' = [applied EXCEPT ![Top(redo_stack_)] = TRUE]
    /\ undo_stack_' = Append(undo_stack_, Top(redo_stack_))
    /\ lastCall' = [op |-> "redo", ret |-> TRUE, can |-> CanRedo,
                    cmd |-> Top(redo_stack_), ran |-> "execute"]
    /\ UNCHANGED <<undo_func_, nCommands>>
    /\ UNCHANGED nonCommandVars

\* Clear: both stacks are emptied.
Command_Clear ==
    /\ undo_stack_' = <<>>
    /\ redo_stack_' = <<>>
    /\ lastCall' = [op |-> "clear", ret |-> FALSE, can |-> FALSE, cmd |-> 0, ran |-> "none"]
    /\ UNCHANGED <<undo_func_, applied, nCommands>>
    /\ UNCHANGED nonCommandVars

CommandNext ==
    \/ Execute_Null
    \/ \E withUndo \in BOOLEAN : Execute_Command(withUndo)
    \/ Undo_Empty
    \/ Undo_Done
    \/ Undo_Refused
    \/ Redo_Empty
    \/ Redo_Done
    \/ Command_Clear

CommandSpec == Init /\ [][CommandNext]_vars

-----------------------------------------------------------------------------
(* cLogger::Logger, output to the log file in sync mode: Initialize with     *)
(* enable_file, WriteLog and CheckAndRotateLog.  A file is the sequence of   *)
(* the sizes of the entries written to it; WriteLog runs under mutex_ from   *)
(* its first to its last statement and is one step.                          *)

\* log_file_.tellp() at the end of the file: the size of its content.
RECURSIVE FileSize(_)
FileSize(content) ==
    IF content = <<>> THEN 0 ELSE Head(content) + FileSize(Tail(content))

\* Initialize(config) with enable_file = false: log_file_ is left as it is.
File_Initialize_NoFile(m) ==
    /\ enable_file' = FALSE
    /\ max_file_size' = m
    /\ UNCHANGED <<log_file_, active, backup, nWrites, lastWrite>>
    /\ UNCHANGED nonFileVars

\* Initialize(config) with enable_file = true: OpenLogFile() opens
\* log_file_path with std::ios::app; the open may fail.
File_Initialize_Open(m, opens) ==
    /\ enable_file' = TRUE
    /\ max_file_size' = m
    /\ log_file_' = opens
    /\ UNCHANGED <<active, backup, nWrites, lastWrite>>
    /\ UNCHANGED nonFileVars

\* WriteLog without file output: enable_file is false or the file is not open.
WriteLog_NoFile ==
    /\ nWrites < MaxWrites
    /\ ~(enable_file /\ log_file_)
    /\ nWrites' = nWrites + 1
    /\ lastWrite' = [rotated |-> FALSE, seen |-> active]
    /\ UNCHANGED <<enable_file, max_file_size, log_file_, active, backup>>
    /\ UNCHANGED nonFileVars

\* if (file_size >= config_.max_file_size)
MustRotate(content) == FileSize(content) >= max_file_size

\* WriteLog: log_file_ << log_entry; CheckAndRotateLog finds the file below
\* max_file_size.
WriteLog_Append(sz) ==
    /\ nWrites < MaxWrites
    /\ enable_file /\ log_file_
    /\ ~MustRotate(Append(active, sz))
    /\ nWrites' = nWrites + 1
    /\ active' = Append(active, sz)
    /\ lastWrite' = [rotated |-> FALSE, seen |-> Append(active, sz)]
    /\ UNCHANGED <<enable_file, max_file_size, log_file_, backup>>
    /\ UNCHANGED nonFileVars

\* The loop over i = max_backup_files - 1 down to 1 copies file .i onto file
\* .(i + 1) where file .i exists; then log_file_path is copied onto file .1.
RotatedBackups(content) ==
    [i \in Backups |->
        IF i = 1 THEN content
        ELSE IF backup[i - 1] # <<>> THEN backup[i - 1] ELSE backup[i]]

\* OpenLogFile() after the rotation: log_file_path, which was copied and
\* neither removed nor truncated, is opened with std::ios::app.
Reopened(content) == content

\* WriteLog: log_file_ << log_entry; CheckAndRotateLog finds the file at or
\* above max_file_size and rotates; the reopening may fail.
WriteLog_Rotate(sz, opens) ==
    /\ nWrites < MaxWrites
    /\ enable_file /\ log_file_
    /\ MustRotate(Append(active, sz))
    /\ nWrites' = nWrites + 1
    /\ backup' = RotatedBackups(Append(active, sz))
    /\ active' = Reopened(Append(active, sz))
    /\ log_file_' = opens
    /\ lastWrite' = [rotated |-> TRUE, seen |-> Append(active, sz)]
    /\ UNCHANGED <<enable_file, max_file_size>>
    /\ UNCHANGED nonFileVars

FileNext ==
    \/ \E m \in 1..MaxFileSize : File_Initialize_NoFile(m)
    \/ \E m \in 1..MaxFileSize : \E opens \in BOOLEAN : File_Initialize_Open(m, opens)
    \/ WriteLog_NoFile
    \/ \E sz \in 1..MaxEntrySize : WriteLog_Append(sz)
    \/ \E sz \in 1..MaxEntrySize : \E opens \in BOOLEAN : WriteLog_Rotate(sz, opens)

FileSpec == Init /\ [][FileNext]_vars

-----------------------------------------------------------------------------
(* cStateMachine::StateMachine<Context>.  states_ maps a name to "state" (a  *)
(* State object registered by AddState), to "null" (an empty shared_ptr that *)
(* std::map::operator[] inserted) or to "absent" (no entry); transitions_    *)
(* maps a pair of names to "always" (no condition), "cond" (a condition      *)
(* function) or "absent".  A call through an empty shared_ptr is undefined   *)
(* behaviour: the process crashes or the call goes on.                       *)

\* std::string GetCurrentState() const
GetCurrentState == current_state_

\* states_.find(name) != states_.end()
Found(n) == states_[n] # "absent"

\* states_[name]: operator[] inserts an empty pointer where there is no entry.
Subscript(n) == IF states_[n] = "absent" THEN [states_ EXCEPT ![n] = "null"] ELSE states_

\* The record of a call: the operation, its argument, what it returned,
\* GetCurrentState() before it and whether the argument was a registered state.
Called(o, a, r) ==
    [op |-> o, arg |-> a, ret |-> r, before |-> current_state_,
     known |-> IF a \in StateNames THEN states_[a] = "state" ELSE FALSE]

\* AddState(state) with a state object named n.
AddState(n) ==
    /\ ~smCrashed
    /\ states_' = [states_ EXCEPT ![n] = "state"]
    /\ smLast' = Called("add", n, "none")
    /\ UNCHANGED <<transitions_, current_state_, initial_state_, smCrashed>>
    /\ UNCHANGED nonMachineVars

\* AddState(nullptr): nothing happens.
AddState_Null ==
    /\ ~smCrashed
    /\ smLast' = Called("add", "", "none")
    /\ UNCHANGED <<states_, transitions_, current_state_, initial_state_, smCrashed>>
    /\ UNCHANGED nonMachineVars

\* AddTransition(from, to, condition): transitions_[from][to] = condition;
AddTransition(from, to, condition) ==
    /\ ~smCrashed
    /\ transitions_' = [transitions_ EXCEPT ![<<from, to>>] = condition]
    /\ smLast' = Called("addTransition", to, "none")
    /\ UNCHANGED <<states_, current_state_, initial_state_, smCrashed>>
    /\ UNCHANGED nonMachineVars

\* SetInitialState(n): initial_state_ is set if states_ has an entry for n.
SetInitialState(n) ==
    /\ ~smCrashed
    /\ initial_state_' = IF Found(n) THEN n ELSE initial_state_
    /\ smLast' = Called("setInitial", n, "none")
    /\ UNCHANGED <<states_, transitions_, current_state_, smCrashed>>
    /\ UNCHANGED nonMachineVars

\* if (!initial_state_.empty() && states_.find(initial_state_) != states_.end())
MayStart == initial_state_ # "" /\ Found(initial_state_)

\* Start without an initial state: nothing happens.
Start_Nothing ==
    /\ ~smCrashed
    /\ ~MayStart
    /\ smLast' = Called("start", "", "none")
    /\ UNCHANGED <<states_, transitions_, current_state_, initial_state_, smCrashed>>
    /\ UNCHANGED nonMachineVars

\* Start: current_state_ = initial_state_; states_[current_state_]->Enter();
Start_Enter ==
    /\ ~smCrashed
    /\ MayStart
    /\ states_[initial_state_] = "state"
    /\ current_state_' = initial_state_
    /\ smLast' = Called("start", initial_state_, "none")
    /\ UNCHANGED <<states_, transitions_, initial_state_, smCrashed>>
    /\ UNCHANGED nonMachineVars

\* Start where the entry of the initial state is an empty pointer: Enter() is
\* called through it.
Start_Null(crashes) ==
    /\ ~smCrashed
    /\ MayStart
    /\ states_[initial_state_] = "null"
    /\ current_state_' = initial_state_
    /\ smCrashed' = crashes
    /\ smLast' = Called("start", initial_state_, "none")
    /\ UNCHANGED <<states_, transitions_, initial_state_>>
    /\ UNCHANGED nonMachineVars

\* TransitionTo: if (current_state_.empty()) return false;
TransitionTo_NotStarted(n) ==
    /\ ~smCrashed
    /\ current_state_ = ""
    /\ smLast' = Called("transition", n, "false")
    /\ UNCHANGED <<states_, transitions_, current_state_, initial_state_, smCrashed>>
    /\ UNCHANGED nonMachineVars

\* TransitionTo: transitions_[current_state_] has no entry for n: return false;
TransitionTo_NoTransition(n) ==
    /\ ~smCrashed
    /\ current_state_ # ""
    /\ transitions_[<<current_state_, n>>] = "absent"
    /\ smLast' = Called("transition", n, "false")
    /\ UNCHANGED <<states_, transitions_, current_state_, initial_state_, smCrashed>>
    /\ UNCHANGED nonMachineVars

\* TransitionTo: the condition function returns false: return false;
TransitionTo_ConditionFalse(n) ==
    /\ ~smCrashed
    /\ current_state_ # ""
    /\ transitions_[<<current_state_, n>>] = "cond"
    /\ smLast' = Called("transition", n, "false")
    /\ UNCHANGED <<states_, transitions_, current_state_, initial_state_, smCrashed>>
    /\ UNCHANGED nonMachineVars

\* it != end() && !(it->second && !it->second(context)), the condition
\* function, if there is one, having returned true.
Passes(n) ==
    /\ current_state_ # ""
    /\ transitions_[<<current_state_, n>>] \in {"always", "cond"}

\* TransitionTo between two State objects: Exit(), current_state_ = n,
\* Enter(), return true.
TransitionTo_Done(n) ==
    /\ ~smCrashed
    /\ Passes(n)
    /\ states_[current_state_] = "state"
    /\ states_[n] = "state"
    /\ current_state_' = n
    /\ smLast' = Called("transition", n, "true")
    /\ UNCHANGED <<states_, transitions_, initial_state_, smCrashed>>
    /\ UNCHANGED nonMachineVars

\* TransitionTo from a current state whose entry is an empty pointer: Exit()
\* is called through it.  If the call goes on, so does TransitionTo, and
\* Enter() is called through the entry of n, which may be empty as well.
TransitionTo_ExitNull(n, crashes) ==
    /\ ~smCrashed
    /\ Passes(n)
    /\ states_[current_state_] = "null"
    /\ smCrashed' = crashes
    /\ IF crashes
       THEN /\ smLast' = Called("transition", n, "none")
            /\ UNCHANGED <<states_, current_state_>>
       ELSE /\ states_' = Subscript(n)
            /\ current_state_' = n
            /\ smLast' = Called("transition", n, "true")
    /\ UNCHANGED <<transitions_, initial_state_>>
    /\ UNCHANGED nonMachineVars

\* TransitionTo to a name whose entry is an empty pointer, or which has no
\* entry: Exit(), current_state_ = n, states_[n] inserts an empty pointer
\* and Enter() is called through it.
TransitionTo_EnterNull(n, crashes) ==
    /\ ~smCrashed
    /\ Passes(n)
    /\ states_[current_state_] = "state"
    /\ states_[n] # "state"
    /\ states_' = Subscript(n)
    /\ current_state_' = n
    /\ smCrashed' = crashes
    /\ smLast' = Called("transition", n, IF crashes THEN "none" ELSE "true")
    /\ UNCHANGED <<transitions_, initial_state_>>
    /\ UNCHANGED nonMachineVars

\* Update: nothing before Start; otherwise states_[current_state_]->Update().
Update_Run ==
    /\ ~smCrashed
    /\ IF current_state_ = "" THEN TRUE ELSE states_[current_state_] = "state"
    /\ smLast' = Called("update", "", "none")
    /\ UNCHANGED <<states_, transitions_, current_state_, initial_state_, smCrashed>>
    /\ UNCHANGED nonMachineVars

\* Update where the entry of the current state is an empty pointer.
Update_Null(crashes) ==
    /\ ~smCrashed
    /\ current_state_ # ""
    /\ states_[current_state_] = "null"
    /\ smCrashed' = crashes
    /\ smLast' = Called("update", "", "none")
    /\ UNCHANGED <<states_, transitions_, current_state_, initial_state_>>
    /\ UNCHANGED nonMachineVars

MachineNext ==
    \/ \E n \in StateNames : AddState(n)
    \/ AddState_Null
    \/ \E from, to \in StateNames : \E condition \in {"always", "cond"} :
           AddTransition(from, to, condition)
    \/ \E n \in StateNames : SetInitialState(n)
    \/ Start_Nothing
    \/ Start_Enter
    \/ \E crashes \in BOOLEAN : Start_Null(crashes)
    \/ \E n \in StateNames : TransitionTo_NotStarted(n)
    \/ \E n \in StateNames : TransitionTo_NoTransition(n)
    \/ \E n \in StateNames : TransitionTo_ConditionFalse(n)
    \/ \E n \in StateNames : TransitionTo_Done(n)
    \/ \E n \in StateNames : \E crashes \in BOOLEAN : TransitionTo_ExitNull(n, crashes)
    \/ \E n \in StateNames : \E crashes \in BOOLEAN : TransitionTo_EnterNull(n, crashes)
    \/ Update_Run
    \/ \E crashes \in BOOLEAN : Update_Null(crashes)

MachineSpec == Init /\ [][MachineNext]_vars

-----------------------------------------------------------------------------
(* Properties *)

\* Times the body of task k was invoked.
Count(k) == Cardinality({p \in DOMAIN execOrder : execOrder[p] = k})

\* Position of task k in the order of invocation.
Pos(k) == CHOOSE p \in DOMAIN execOrder : execOrder[p] = k

\* Worker threads that were spawned and have not exited.
Alive == {w \in WorkerIds : wpc[w] \notin {"none", "exited"}}

\* The executor is stopped: running_ is false and no worker thread is left.
Stopped == ~running_ /\ Alive = {}

\* Workers inside a callback (the user body or the wrapper around it).
InBody == {w \in WorkerIds : wpc[w] \in {"run", "posted", "signal"}}

\* The wrapper of task k has been invoked and has returned.
Settled(k) == Count(k) > 0 /\ \A w \in InBody : cur[w] # k

\* C1: FIFO execution -- if task i was enqueued before task j (ids are push
\* ranks) and the body of j has been invoked, then the body of i was invoked
\* before it, whatever the clients' calls of Post, Start and Stop.
C1_FifoExecution ==
    \A i, j \in 1..nTasks :
        (i < j /\ Count(j) > 0) => (Count(i) > 0 /\ Pos(i) < Pos(j))

C1_Witness == Len(execOrder) >= 3 /\ calls >= 4

\* C2: a task accepted by Post (typed or untyped) is never invoked twice, and
\* once the executor is stopped every accepted task has been invoked exactly
\* once and has finished.
C2_ExactlyOnce ==
    \A k \in 1..nTasks :
        /\ Count(k) <= 1
        /\ Stopped => (Count(k) = 1 /\ Finished(k))

C2_Witness ==
    /\ Stopped
    /\ \E k1, k2 \in 1..nTasks : kind[k1] = "typed" /\ kind[k2] = "untyped"

\* C3: at most one worker thread (spawned and not yet exited) is alive at any
\* time.
C3_AtMostOneWorker == Cardinality(Alive) <= 1

\* C4: task bodies run one at a time -- at most one worker is inside a callback.
C4_SequentialBodies == Cardinality(InBody) <= 1

C4_Witness ==
    \E w1, w2 \in WorkerIds : w1 # w2 /\ wpc[w1] = "run" /\ wpc[w2] = "top"

\* C5: when any call of Stop() returns, every task that was in the queue when
\* the call took the lock has finished executing.
C5_StopDrains ==
    \A c \in Clients :
        pc[c] = "stop_ret" => \A k \in stopSnap[c] : Finished(k)

\* C6: when any call of WaitAll() returns, every handle registered by a Post
\* that completed before the call is Fulfilled or Failed.
C6_WaitAllCoversEarlierPosts ==
    \A c \in Clients :
        pc[c] = "wa_ret" => \A k \in 1..waSeen[c] : pstate[k] # "Pending"

\* C7: snapshot semantics of WaitAll -- a call waits only on handles registered
\* before its snapshot; a handle no snapshot has taken is still in the
\* registry; and a snapshot takes every handle registered before it, so a
\* handle registered after one snapshot is taken by the next.
C7_SnapshotSemantics ==
    /\ \A k \in 1..nTasks : k \notin taken => k \in Range(pending_futures_)
    /\ \A c \in Clients :
          pc[c] \in {"wa_wait", "wa_ret"} =>
              /\ \A k \in Range(futures[c]) : k <= waSeen[c]
              /\ \A k \in 1..waSeen[c] : k \in taken

C7_Witness ==
    \E c \in Clients :
        /\ pc[c] = "wa_ret"
        /\ waSeen[c] >= 1
        /\ \E k \in 1..nTasks :
              /\ k > waSeen[c]
              /\ pstate[k] = "Pending"
              /\ k \in Range(pending_futures_)

\* C8: a body that throws does not stop the worker -- no exception escapes the
\* worker thread; a task's promise is only ever resolved according to its own
\* body (Failed if it threw, Fulfilled if it returned), is resolved once its
\* wrapper has returned, and no task runs twice; once the executor is stopped
\* every task has run exactly once.
C8_ThrowDoesNotStopWorker ==
    /\ \A w \in WorkerIds : wpc[w] # "uncaught"
    /\ \A k \in 1..nTasks :
          /\ Count(k) <= 1
          /\ body[k] = "throw" => pstate[k] \in {"Pending", "Failed"}
          /\ body[k] = "ok" => pstate[k] \in {"Pending", "Fulfilled"}
          /\ Settled(k) => pstate[k] # "Pending"
          /\ Stopped => Count(k) = 1

C8_Witness ==
    /\ nTasks >= 3
    /\ body[1] = "ok" /\ body[2] = "throw" /\ body[3] = "ok"
    /\ pstate[1] = "Fulfilled" /\ pstate[2] = "Failed" /\ pstate[3] = "Fulfilled"

\* C9: when the untyped Post returns, the future given to the caller is valid:
\* it refers to the shared state the worker resolves for that task.
C9_UntypedHandleValid ==
    \A c \in Clients :
        (pc[c] = "post_ret" /\ kind[myTask[c]] = "untyped") => handle[c].valid

\* C10: get() on the future returned by the untyped Post, for a task whose
\* body threw, rethrows the exception captured from that body.
C10_GetSurfacesTaskFailure ==
    \A c \in Clients :
        (pc[c] = "get_ret" /\ kind[myTask[c]] = "untyped" /\ body[myTask[c]] = "throw")
            => getResult[c] = "task_exception"

\* C11: get() on the future returned by the typed Post<T> returns only after
\* the task's body has been invoked and the typed promise resolved, and for a
\* body that returned it yields exactly the value that body returned, for
\* every task (every task returns a different value).
C11_TypedGetYieldsTaskValue ==
    \A c \in Clients :
        (pc[c] = "get_ret" /\ kind[myTask[c]] = "typed") =>
            /\ Count(myTask[c]) = 1
            /\ tstate[myTask[c]] # "Pending"
            /\ body[myTask[c]] = "ok" =>
                  (getResult[c] = "value" /\ getValue[c] = Ret(myTask[c]))

C11_Witness ==
    \E c \in Clients :
        /\ pc[c] = "get_ret"
        /\ myTask[c] >= 2
        /\ kind[myTask[c]] = "typed"
        /\ body[myTask[c]] = "ok"
        /\ getValue[c] = Ret(myTask[c])

\* C12: every completion state -- the promise<void> of an untyped task, the
\* promise<T> and the promise<void> of a typed task -- is resolved at most
\* once: a step that resolves one starts from Pending, and a state that is
\* Fulfilled or Failed (and the value it holds) never changes afterwards.
C12_ResolvedOnce ==
    [][ /\ \A k \in Tasks :
              /\ pstate[k] # "Pending" => pstate'[k] = pstate[k]
              /\ tstate[k] # "Pending" => (tstate'[k] = tstate[k] /\ tvalue'[k] = tvalue[k])
              /\ pstate'[k] \in {"Pending", "Fulfilled", "Failed"}
              /\ tstate'[k] \in {"Pending", "Fulfilled", "Failed"}
        /\ \A w \in WorkerIds :
              /\ (wpc[w] \in {"run", "posted"} /\ wpc'[w] \notin {"run", "posted"})
                    => HandleState(cur[w]) = "Pending"
              /\ (wpc[w] = "signal" /\ wpc'[w] # "signal") => pstate[cur[w]] = "Pending"
      ]_vars

C12_Witness ==
    /\ Stopped
    /\ \E k1, k2 \in 1..nTasks :
          /\ kind[k1] = "typed" /\ tstate[k1] = "Fulfilled" /\ pstate[k1] = "Fulfilled"
          /\ kind[k2] = "untyped" /\ pstate[k2] = "Failed"

\* The handles a WaitAll() call of client c still has to wait on are all resolved.
AllReady(c) == \A k \in Range(futures[c]) : pstate[k] # "Pending"

AbortedInStart == terminated /\ \E c \in Clients : pc[c] \in {"start_assign", "post_assign"}

\* C14: no submission is dropped -- under any interleaving of Post, Start and
\* Stop by several threads every task accepted by Post is eventually executed
\* and its handle leaves Pending; so the program never ends, inside a Start or
\* a Post, with an accepted task that was not executed or whose handle is
\* still Pending.
C14_NoSubmissionDropped ==
    AbortedInStart => \A k \in 1..nTasks : Count(k) = 1 /\ pstate[k] # "Pending"

\* C15: re-arm -- a Post made after a Stop() call of the same thread has
\* returned is not rejected and restarts the executor: the worker thread it
\* spawns is installed in worker_thread_ (the assignment does not abort the
\* process), so that the task can be enqueued and executed.
C15_RearmAfterStop ==
    \A c \in Clients :
        (pc[c] = "post_assign" /\ rearm[c]) => ~AssignTerminates

\* A Stop() call of client d is in progress: it has cleared running_ and has
\* not returned.
StopInProgress(d) == pc[d] = "stop_join"

C17_BodyRunsUnlocked ==
    /\ \A w \in InBody : mutex_ # ByWorker(w)
    /\ \A w \in WorkerIds : wpc[w] # "nested_abort"

\* C18: Start() on an executor that is already running returns without
\* spawning a worker and leaves the queue, the registry, the running flag and
\* worker_thread_ as they were; Start() on a stopped executor constructs
\* exactly one worker thread and sets running_, leaving queue and registry as
\* they were; and when no earlier worker is left unjoined, the new worker is
\* the only one alive.
C18_StartIdempotent ==
    /\ [][ \A c \in Clients :
              /\ Start_Running(c) =>
                    /\ running_
                    /\ UNCHANGED <<running_, callbacks_, pending_futures_, worker_thread_>>
                    /\ UNCHANGED <<nWorkers, wpc, cv_waiters>>
              /\ (pc[c] # "start_assign" /\ pc'[c] = "start_assign") =>
                    /\ ~running_ /\ running_'
                    /\ nWorkers' = nWorkers + 1
                    /\ \A w \in WorkerIds :
                          wpc'[w] = (IF w = nWorkers + 1 THEN "top" ELSE wpc[w])
                    /\ UNCHANGED <<callbacks_, pending_futures_>>
       ]_vars
    /\ [](\A c \in Clients :
            (pc[c] = "start_assign" /\ ~Joinable(worker_thread_)) =>
                (running_ /\ Alive = {newWorker[c]}))

\* Each client has made one call, a Start(): one of them spawned the worker,
\* the other found the executor running.
C18_Witness ==
    /\ calls = 2
    /\ \A c \in Clients : pc[c] = "start_ret"
    /\ nWorkers = 1
    /\ running_
    /\ worker_thread_ = 1

\* C19: when WaitAll() returns to a thread and no other thread's WaitAll has
\* taken any of the handles registered before the call (in particular when a
\* single thread posts N tasks and then calls WaitAll), every task posted
\* before the call has run: its body was invoked once and its wrapper has
\* resolved the handle.
C19_WaitAllAfterPosts ==
    \A c \in Clients :
        (pc[c] = "wa_ret" /\ \A k \in 1..waSeen[c] : takenBy[k] \in {c, "none"}) =>
            \A k \in 1..waSeen[c] : Count(k) = 1 /\ Finished(k) /\ pstate[k] # "Pending"

\* One thread has made every call: MaxTasks Posts and then WaitAll().
C19_Witness ==
    /\ pc["A"] = "wa_ret" /\ pc["B"] = "idle"
    /\ nTasks = MaxTasks /\ waSeen["A"] = MaxTasks
    /\ calls = MaxTasks + 1
    /\ \A k \in Tasks : takenBy[k] = "A" /\ Count(k) = 1

\* C20: when a Stop() call that found the executor running returns (in
\* particular when a single thread posts N tasks and then calls Stop() at
\* once), the queue is empty and every task posted so far has run: its body
\* was invoked once and its wrapper has resolved its handle.
C20_StopAfterPosts ==
    [][ \A c \in Clients :
          (pc[c] = "stop_join" /\ pc'[c] = "stop_ret") =>
              /\ callbacks_' = <<>>
              /\ \A k \in 1..nTasks' :
                    Count(k)' = 1 /\ Finished(k)' /\ pstate'[k] # "Pending"
      ]_vars

\* One thread has made every call: MaxTasks Posts and then Stop().
C20_Witness ==
    /\ pc["A"] = "stop_ret" /\ pc["B"] = "idle"
    /\ nTasks = MaxTasks
    /\ calls = MaxTasks + 1
    /\ callbacks_ = <<>>
    /\ \A k \in Tasks : Count(k) = 1

\* C21: GetPendingCount() returns the number of tasks enqueued and not yet
\* dequeued by the worker at the moment it holds the lock: pushes so far minus
\* invocations so far, so that neither the task being executed nor the
\* completed ones are counted.
C21_PendingCountIsQueued ==
    [][ \A c \in Clients :
          (calls' # calls /\ pc'[c] = "count_ret") =>
              count'[c] = nTasks - Len(execOrder)
      ]_vars

C21_Witness ==
    /\ pc["A"] = "count_ret"
    /\ count["A"] = 1
    /\ Len(callbacks_) = 1
    /\ \E w \in WorkerIds : wpc[w] = "run"
    /\ \E k \in 1..nTasks : Finished(k)

\* C22: for every typed Post<T>, the typed handle and the untyped barrier
\* signal resolve to the same outcome: both Fulfilled when the callback
\* returned, both Failed when it threw; the signal is never resolved before or
\* differently from the handle, and once the wrapper has returned neither of
\* them is Pending.
C22_TypedAndSignalAgree ==
    \A k \in 1..nTasks :
        kind[k] = "typed" =>
            /\ pstate[k] # "Pending" => pstate[k] = tstate[k]
            /\ tstate[k] # "Pending" => tstate[k] = Outcome(body[k])
            /\ Settled(k) => /\ tstate[k] # "Pending"
                             /\ pstate[k] = tstate[k]

C22_Witness ==
    \E j, k \in 1..nTasks :
        /\ kind[j] = "typed" /\ kind[k] = "typed"
        /\ Settled(j) /\ Settled(k)
        /\ pstate[j] = "Failed" /\ tstate[j] = "Failed"
        /\ pstate[k] = "Fulfilled" /\ tstate[k] = "Fulfilled"

\* C23: the failure of a task is observable only through that task's own
\* handle: WaitAll() never ends with an exception, it returns normally also
\* when handles of its snapshot are Failed, and a handle or barrier signal is
\* Failed only if the callback of that very task threw; a get() reports a task
\* exception only for the task the handle was returned for.
C23_FailureStaysWithItsTask ==
    /\ \A c \in Clients : pc[c] # "wa_threw"
    /\ \A k \in 1..nTasks :
          (pstate[k] = "Failed" \/ tstate[k] = "Failed") => body[k] = "throw"
    /\ \A c \in Clients :
          (pc[c] = "get_ret" /\ getResult[c] = "task_exception") =>
              /\ handle[c].task = myTask[c]
              /\ body[myTask[c]] = "throw"

C23_Witness ==
    \E c \in Clients : \E j, k \in 1..nTasks :
        /\ pc[c] = "wa_ret"
        /\ takenBy[j] = c /\ takenBy[k] = c
        /\ j < k
        /\ pstate[j] = "Failed"
        /\ pstate[k] = "Fulfilled"

\* C28: the worker leaves its loop only in a step in which, holding the lock
\* (no other thread holds it), it sees the queue empty and running_ false; it
\* never exits while a task is queued or while the executor is Running.
C28_ExitOnlyWhenStoppedAndDrained ==
    [][ \A w \in WorkerIds :
          (wpc[w] # "exited" /\ wpc'[w] = "exited") =>
              /\ mutex_ = Free
              /\ callbacks_ = <<>>
              /\ ~running_
              /\ cur[w] = 0 \/ Finished(cur[w])
      ]_vars

C28_Witness ==
    /\ \E w \in WorkerIds : wpc[w] = "exited"
    /\ nTasks >= 2
    /\ \A k \in 1..nTasks : Finished(k)
    /\ \E c \in Clients : pc[c] = "stop_ret"

\* C29: every Stop() made by a non-worker thread eventually returns, under any
\* interleaving with Post or Start calls of other threads: a Stop() that has
\* cleared running_ and is joining the worker is never left there for ever, so
\* the process is never ended (by a concurrent re-arm) while a Stop() is in
\* its join.
C29_StopNotLeftInJoin ==
    \A d \in Clients : StopInProgress(d) => ~terminated

\* C30: a new worker thread is assigned to worker_thread_ only when the
\* previous thread object is not joinable: whenever a Start or a Post is at
\* the assignment of StartUnlocked, worker_thread_ holds no unjoined thread.
C30_AssignOnlyWhenNotJoinable ==
    \A c \in Clients :
        pc[c] \in {"start_assign", "post_assign"} => ~Joinable(worker_thread_)

\* C24: Logger::Initialize(config) with async_mode = true returns to its
\* caller: the call never ends blocked inside StartAsyncWorker() nor with an
\* exception, and when it has returned the async worker thread exists.
C24_InitializeAsyncReturns ==
    \A t \in LogThreads :
        /\ lpc[t] \notin {"init_blocked", "init_threw"}
        /\ (lpc[t] = "init_ret" /\ async_mode /\ async_running_) => async_thread_

\* C25: in async mode, with no further Log call required, a Flush() that
\* found the queue non-empty and is waiting eventually returns once the worker
\* has emptied the queue and written what it took (unless the process was
\* ended).
C25_FlushReturns ==
    \A t \in LogThreads :
        (/\ async_mode /\ lpc[t] = "flush_wait"
         /\ lwpc \in {"top", "blocking", "parked", "relock"}
         /\ log_queue_ = <<>>)
            ~> (lpc[t] = "flush_ret" \/ logAborted)

\* Objects the pool has made that exist: handed out, or idle in the pool.
Live == handed \cup Range(pool_)

\* C26: for a pool with max_size > 0, after any sequence of Acquire, release
\* of acquired handles and Clear, the number of live objects made by the pool
\* (handed out plus idle) never exceeds max_size.
C26_LiveWithinMaxSize ==
    (pool_made /\ max_size_ > 0) => Cardinality(Live) <= max_size_

\* C27: whenever CanUndo() returns true, the next Undo() undoes a command and
\* returns true; whenever CanRedo() returns true, the next Redo() executes a
\* command again and returns true.
C27_CanUndoMeansUndoWorks ==
    /\ (lastCall.op = "undo" /\ lastCall.can) =>
           /\ lastCall.ret
           /\ lastCall.ran = "undo"
           /\ lastCall.cmd \in 1..nCommands
    /\ (lastCall.op = "redo" /\ lastCall.can) =>
           /\ lastCall.ret
           /\ lastCall.ran = "execute"
           /\ lastCall.cmd \in 1..nCommands

\* C31: in every reachable state in which the task queue is not empty, a worker
\* thread is alive (spawned, not exited, in a process that has not been ended)
\* that will dequeue it: the executor is never left with queued tasks and no
\* worker.
C31_QueuedTasksHaveWorker ==
    callbacks_ # <<>> => (~terminated /\ Alive # {})

\* C32: for a typed task the typed result slot is resolved before the barrier
\* signal: the signal changes only when the typed slot is already resolved,
\* and whenever a WaitAll() whose snapshot held the task has returned, the
\* typed handle is ready, so that get() on it does not block.
C32_TypedReadyBeforeSignal ==
    /\ \A c \in Clients : \A k \in 1..nTasks :
          (kind[k] = "typed" /\ takenBy[k] = c /\ pc[c] = "wa_ret") =>
              tstate[k] # "Pending"
    /\ \A k \in 1..nTasks :
          (kind[k] = "typed" /\ tstate[k] = "Pending") => ~Ready(k)

C32_Witness ==
    \E c, d \in Clients : \E k \in 1..nTasks :
        /\ kind[k] = "typed" /\ takenBy[k] = c /\ pc[c] = "wa_ret"
        /\ handle[d].task = k /\ pc[d] = "get_ret" /\ getResult[d] = "value"
        /\ tstate[k] = "Fulfilled"

\* The tasks posted and not taken by a WaitAll snapshot, in the order of
\* their Post.
RECURSIVE Untaken(_)
Untaken(n) ==
    IF n = 0 THEN <<>>
    ELSE IF n \in taken THEN Untaken(n - 1) ELSE Append(Untaken(n - 1), n)

\* C33: the barrier registry holds exactly one entry per Post made since the
\* last WaitAll snapshot (or since construction), in the order of the Posts;
\* a step that is not the snapshot of a WaitAll never removes an entry (not
\* the completion of a task, not Stop), and a Post adds exactly its own.
C33_RegistryOnePerPost ==
    /\ [](pending_futures_ = Untaken(nTasks))
    /\ [][ /\ (\A c \in Clients : ~(pc[c] # "wa_wait" /\ pc'[c] = "wa_wait")) =>
                 /\ Len(pending_futures_') >= Len(pending_futures_)
                 /\ SubSeq(pending_futures_', 1, Len(pending_futures_)) = pending_futures_
           /\ nTasks' # nTasks =>
                 pending_futures_' = Append(pending_futures_, nTasks + 1)
        ]_vars

C33_Witness ==
    /\ pending_futures_ = <<2>>
    /\ taken = {1}
    /\ Finished(2)
    /\ \E c \in Clients : pc[c] = "stop_ret"

\* C34: in async mode the wake-up of an enqueue is never consumed in a way
\* that leaves the worker asleep with a non-empty queue, also when other
\* threads are blocked in Flush() on the same condition variable: whenever
\* the worker is blocked in its wait, the log queue is empty (so that every
\* entry enqueued is taken and written by the worker).
C34_WorkerNeverAsleepWithEntries ==
    (lwpc = "parked" /\ "W" \in queue_waiters) => log_queue_ = <<>>

\* Times entry e has been written.
Written(e) == Cardinality({i \in DOMAIN written : written[i] = e})

\* C35: when Flush() returns in async mode, every entry enqueued by a Log call
\* that completed before Flush() was called has been written: none is still
\* in the queue or held by the worker between dequeue and write.
C35_FlushedEntriesWritten ==
    \A t \in LogThreads :
        (lpc[t] = "flush_ret" /\ atCall[t].async) =>
            \A e \in 1..atCall[t].n : Written(e) >= 1

\* C36: when Shutdown() returns in async mode, every entry enqueued before the
\* call has been written exactly once and none of them is left in the log
\* queue or with the worker.
C36_ShutdownWritesAll ==
    \A t \in LogThreads :
        (lpc[t] = "shutdown_ret" /\ atCall[t].async) =>
            \A e \in 1..atCall[t].n :
                /\ Written(e) = 1
                /\ e \notin Range(log_queue_)
                /\ e # log_entry

\* C37: after CheckAndRotateLog has rotated (the active file had reached
\* max_file_size), the previous content is in backup .1 and the reopened
\* active log file is empty, so that a further write rotates again only when
\* max_file_size has been reached anew.
C37_RotationEmptiesActiveFile ==
    lastWrite.rotated =>
        /\ backup[1] = lastWrite.seen
        /\ active = <<>>

\* C38: in every reachable state of the pool GetAvailableCount() is at most
\* GetTotalCount(), and the total counter is never decremented below zero (it
\* never wraps, so it stays at most the number of objects ever created), also
\* when Clear() is called while objects are handed out and they are released
\* afterwards.
C38_AvailableWithinTotal ==
    pool_made =>
        /\ Len(pool_) <= current_size_
        /\ current_size_ <= nObjects

\* C39: a call of Undo() or Redo() that returns false leaves both histories
\* (the undo stack and the redo stack) unchanged.
C39_FalseLeavesHistories ==
    [][(lastCall'.op \in {"undo", "redo"} /\ ~lastCall'.ret)
          => UNCHANGED <<undo_stack_, redo_stack_>>]_vars

\* C40: after any sequence of AddState, AddTransition, SetInitialState, Start
\* and TransitionTo, GetCurrentState() is empty or a name registered with
\* AddState; a TransitionTo whose target was never registered returns false
\* and leaves the current state unchanged.
C40_CurrentStateRegistered ==
    /\ IF GetCurrentState = "" THEN TRUE ELSE states_[GetCurrentState] = "state"
    /\ (smLast.op = "transition" /\ ~smLast.known) =>
           /\ smLast.ret = "false"
           /\ GetCurrentState = smLast.before

====
